---- MODULE Spec2Model ----
(***************************************************************************)
(* A model of the unified updater, src/python/update-service/arch-update.py *)
(* One run of main() is a sequential program: pc names the statement that   *)
(* runs next, and Ctx.run is a sub-machine (pc = "run" .. "run_ret") that   *)
(* returns to the label held in ret.  The child process started by Ctx.run  *)
(* is a second process: it writes lines into a pipe and exits on its own.   *)
(*                                                                         *)
(* Inputs.  The command line is an input.  parse_args draws the flags it    *)
(* reads or rewrites (the four areas, --deep-clean, --aggressive-cache,     *)
(* --yes, --manual) and --dry-run; every other flag is never changed by the *)
(* program and is drawn at the statement that first reads it, which gives   *)
(* the same runs as drawing it at parse time.  have() spawns `which` at     *)
(* every call and caches nothing, so each call draws its own answer.        *)
(*                                                                         *)
(* Spec is the whole run of main, SpecUnit one call of Ctx.confirm and of   *)
(* Ctx.run with what they print, SpecLogs the log directory of lines        *)
(* 833-862.  Two more programs of the repository have a specification of    *)
(* their own: SpecBot, the PR-merge bot of src/auto-tooling/main.py, and    *)
(* SpecCodec, the codec auditor of src/temp/check_codec.py.                 *)
(***************************************************************************)
EXTENDS Naturals, Sequences, FiniteSets, TLC

VARIABLES
  pc,           \* the statement of main / the update functions that runs next
  ret,          \* the label Ctx.run returns to
  args,         \* the argparse namespace, restricted to the flags read so far
  step,         \* the step of main that is running ("system", ..., "llm")
  cur,          \* the command Ctx.run was called with
  child,        \* the child process of Ctx.run: "none", "running", "exited"
  pipe,         \* lines the child has emitted and Ctx.run has not yet read
  emitted,      \* every line the child of the current command has emitted
  term,         \* what the current Ctx.run call has written to the terminal
  logf,         \* what the current Ctx.run call has appended to the log file
  rc,           \* the value the last Ctx.run call returned
  ev,           \* the effect of the last statement (a probe, a prompt, ...)
  lastConfirm,  \* the last Ctx.confirm call of the running function
  guards,       \* the tools whose have() block encloses the current statement
  ran,          \* the steps of main that were entered
  tried,        \* the summarizer backends attempted, with what they returned
  writes,       \* the texts written to ctx.summary_file, in order
  exc,          \* the exception that ended the try block of main
  exitCode,     \* the value main returned (256, no exit code, until then)
  aur_helper,   \* update_system's local aur_helper ("" for None)
  idx,          \* the index of the running for loop
  log_dir,      \* the names of the entries of the log directory
  entries,      \* clear_log_dir's list of the entries it found
  answer,       \* what clear_log_dir's prompt came to ("" when not asked)
  unlinks,      \* the unlink() calls of clear_log_dir, with their outcome
  bot,          \* PR bot: the statement of src/auto-tooling/main.py that runs next
  flag,         \* PR bot: whether restart.flag exists
  created,      \* PR bot: how often restart.flag was created
  deleted,      \* PR bot: how often wait_for_restart deleted restart.flag
  cycles,       \* PR bot: how many merge-and-scrape cycles were started
  fresh,        \* PR bot: restart.flag was created after the bot's last unlink
  attempt,      \* PR bot: merge_latest_pr's confirm attempt
  printed,      \* PR bot: what the last statement printed
  raised,       \* PR bot: the exception that left the main loop ("" for none)
  raised_at,    \* PR bot: the statement that raised it
  issue_txt,    \* PR bot: how often issue.txt was written
  lookups,      \* PR bot: the confirm-button lookups of the current cycle
  clicks,       \* PR bot: the clicks on the confirm button in the current cycle
  removals,     \* PR bot: how often another process removed restart.flag
  media,        \* codec auditor: the names root.rglob("*") would yield
  pos,          \* codec auditor: the index of scan_media's loop
  report        \* codec auditor: scan_media's report

\* the state of the log directory, followed in SpecLogs only
LogVars == <<log_dir, entries, answer, unlinks>>

\* the variables of the updater's run
RunVars == <<pc, ret, args, step, cur, child, pipe, emitted, term, logf, rc, ev,
             lastConfirm, guards, ran, tried, writes, exc, exitCode, aur_helper, idx>>

\* the state of the PR bot, src/auto-tooling/main.py
BotVars == <<bot, flag, created, deleted, cycles, fresh, attempt, printed, raised,
             raised_at, issue_txt, lookups, clicks, removals>>

\* the state of the codec auditor, src/temp/check_codec.py
CodecVars == <<media, pos, report>>

\* the other programs of the repository, which the updater never touches
OtherPrograms == <<BotVars, CodecVars>>

\* what the run of the updater after line 841 leaves alone
Elsewhere == <<LogVars, OtherPrograms>>

vars == <<RunVars, Elsewhere>>

(***************************************************************************)
(* Bounds                                                                  *)
(***************************************************************************)
\* the longest answer typed at a prompt, in characters
MaxAns == 3
\* the most lines one child process emits
MaxLines == 2
\* the longest LLM response, in characters
MaxResp == 2
\* the most orphaned packages `pacman -Qtdq` lists
MaxOrphans == 2

(***************************************************************************)
(* Text: str.strip() and str.lower() over sequences of characters          *)
(***************************************************************************)
Chars == {"y", "Y", "e", "s", " "}

White == {" "}

Texts(C, n) == UNION {[1..k -> C] : k \in 0..n}

RECURSIVE LStrip(_)
LStrip(s) == IF s # <<>> /\ Head(s) \in White THEN LStrip(Tail(s)) ELSE s

RECURSIVE RStrip(_)
RStrip(s) ==
  IF s # <<>> /\ s[Len(s)] \in White THEN RStrip(SubSeq(s, 1, Len(s) - 1)) ELSE s

\* a faulty strip that trims the left end only
Strip_left(s) == LStrip(s)

Strip(s) == RStrip(LStrip(s))

LowerChar(c) ==
  CASE c = "Y" -> "y"
    [] c = "E" -> "e"
    [] c = "S" -> "s"
    [] OTHER -> c

Lower(s) == [i \in 1..Len(s) |-> LowerChar(s[i])]

\* what input() can deliver: end of input, or a line of text
Inputs ==
  {[eof |-> TRUE, text |-> <<>>]} \cup {[eof |-> FALSE, text |-> t] : t \in Texts(Chars, MaxAns)}

YesAnswers == {<<"y">>, <<"y", "e", "s">>}

\* Ctx.confirm: ok is the value returned, read whether input() was called
confirm(assume_yes, inp) ==
  IF assume_yes THEN [ok |-> TRUE, read |-> FALSE]
  ELSE IF inp.eof THEN [ok |-> FALSE, read |-> TRUE]
  ELSE [ok |-> Lower(Strip(inp.text)) \in YesAnswers, read |-> TRUE]

(***************************************************************************)
(* parse_args                                                              *)
(***************************************************************************)
Areas == {"system", "flatpak", "languages", "containers"}

RawArgs ==
  [system : BOOLEAN, flatpak : BOOLEAN, languages : BOOLEAN, containers : BOOLEAN,
   deep_clean : BOOLEAN, aggressive_cache : BOOLEAN,
   assume_yes : BOOLEAN, manual : BOOLEAN, dry_run : BOOLEAN]

\* a faulty default that leaves the namespace as parsed
default_areas_none(a) == a

\* lines 801-808: no area selected means a full update and cleanup
default_areas(a) ==
  IF ~(a.system \/ a.flatpak \/ a.languages \/ a.containers)
  THEN [a EXCEPT !.system = TRUE, !.flatpak = TRUE, !.languages = TRUE,
                 !.containers = TRUE, !.deep_clean = TRUE, !.aggressive_cache = TRUE]
  ELSE a

\* lines 810-816: --manual wins over --yes, and yes is the default
yes_vs_manual(a) ==
  IF a.manual THEN [a EXCEPT !.assume_yes = FALSE]
  ELSE IF ~a.assume_yes THEN [a EXCEPT !.assume_yes = TRUE]
  ELSE a

parse_args_result(raw) == yes_vs_manual(default_areas(raw))

Has(f) == f \in DOMAIN args

dry_run == args.dry_run

assume_yes == args.assume_yes

(***************************************************************************)
(* Effects and commands                                                    *)
(***************************************************************************)
NoEv == [kind |-> "none", what |-> "", ok |-> TRUE]

Ev(k, w, o) == [kind |-> k, what |-> w, ok |-> o]

NoConfirm == [q |-> "", ok |-> FALSE, asked |-> FALSE]

NoCmd == [argv |-> <<>>, sudo |-> FALSE, allow_fail |-> FALSE]

Cmd(argv, sudo, allow_fail) == [argv |-> argv, sudo |-> sudo, allow_fail |-> allow_fail]

\* cmd = ["sudo"] + cmd
FullArgv(c) == IF c.sudo THEN <<"sudo">> \o c.argv ELSE c.argv

(***************************************************************************)
(* Statement patterns shared by the update and cleanup functions           *)
(***************************************************************************)
\* what a statement of an update or cleanup function leaves alone
Frame ==
  UNCHANGED <<args, step, child, pipe, emitted, term, logf, rc, ran, tried, writes,
              exc, exitCode>>

\* ctx.run(c): enter Ctx.run, to come back at label r
Call(c, r) == pc' = "run" /\ cur' = c /\ ret' = r

\* a faulty `if have(tool):` that takes the true branch whatever have() says
HaveStep_always(l, tool, outer, lYes, lNo) ==
  /\ pc = l
  /\ \E r \in BOOLEAN :
       /\ ev' = Ev("which", tool, r)
       /\ guards' = (guards \cap outer) \cup (IF r THEN {tool} ELSE {})
       /\ pc' = lYes
  /\ UNCHANGED <<cur, ret, lastConfirm, aur_helper, idx>>
  /\ Frame

\* `if have(tool):` at label l, inside the have() blocks `outer`
HaveStep(l, tool, outer, lYes, lNo) ==
  /\ pc = l
  /\ \E r \in BOOLEAN :
       /\ ev' = Ev("which", tool, r)
       /\ guards' = (guards \cap outer) \cup (IF r THEN {tool} ELSE {})
       /\ pc' = IF r THEN lYes ELSE lNo
  /\ UNCHANGED <<cur, ret, lastConfirm, aur_helper, idx>>
  /\ Frame

\* a faulty `if ctx.confirm(q): ctx.run(c)` that runs c whatever the answer
ConfirmRun_unprompted(l, q, c, r, lNo) ==
  /\ pc = l
  /\ \E inp \in Inputs :
       LET a == confirm(assume_yes, inp) IN
         /\ lastConfirm' = [q |-> q, ok |-> a.ok, asked |-> TRUE]
         /\ ev' = Ev("confirm", q, a.ok)
         /\ Call(c, r)
  /\ UNCHANGED <<guards, aur_helper, idx>>
  /\ Frame

\* `if ctx.confirm(q): ctx.run(c)` at label l; the else branch only logs
ConfirmRun(l, q, c, r, lNo) ==
  /\ pc = l
  /\ \E inp \in Inputs :
       LET a == confirm(assume_yes, inp) IN
         /\ lastConfirm' = [q |-> q, ok |-> a.ok, asked |-> TRUE]
         /\ ev' = Ev("confirm", q, a.ok)
         /\ IF a.ok THEN Call(c, r) ELSE pc' = lNo /\ UNCHANGED <<cur, ret>>
  /\ UNCHANGED <<guards, aur_helper, idx>>
  /\ Frame

\* a bare `ctx.run(c)` at label l, inside the have() blocks g
RunStep(l, g, c, r) ==
  /\ pc = l
  /\ Call(c, r)
  /\ ev' = NoEv
  /\ guards' = guards \cap g
  /\ UNCHANGED <<lastConfirm, aur_helper, idx>>
  /\ Frame

\* a statement at label l that only logs and goes on to label n, outside
\* every have() block
LogStep(l, n) ==
  /\ pc = l
  /\ pc' = n
  /\ ev' = NoEv
  /\ guards' = {}
  /\ UNCHANGED <<cur, ret, lastConfirm, aur_helper, idx>>
  /\ Frame

(***************************************************************************)
(* update_system                                                           *)
(***************************************************************************)
Q_apt == "Run apt-get update && apt-get upgrade?"

Q_pacman == "Run pacman -Syu?"

Q_aur == "Run <aur_helper> -Syu?"

\* lines 246-248
PacmanSyu == <<"pacman", "-Syu">> \o (IF assume_yes THEN <<"--noconfirm">> ELSE <<>>)

\* lines 262-264
AurSyu(h) == <<h, "-Syu", "--needed">> \o (IF assume_yes THEN <<"--noconfirm">> ELSE <<>>)

\* lines 266-268: each flag is added when the helper's --help text names it
HelpFlags(answerdiff, answerclean, sudoloop) ==
  (IF answerdiff THEN <<"--answerdiff", "None">> ELSE <<>>)
  \o (IF answerclean THEN <<"--answerclean", "None">> ELSE <<>>)
  \o (IF sudoloop THEN <<"--sudoloop">> ELSE <<>>)

\* lines 255-259: the first of yay, paru that have() finds
sys_aur_probe ==
  /\ pc = "sys_aur"
  /\ \E y \in BOOLEAN, p \in BOOLEAN :
       LET h == IF y THEN "yay" ELSE IF p THEN "paru" ELSE "" IN
         /\ aur_helper' = h
         /\ ev' = Ev("which", IF y THEN "yay" ELSE "paru", h # "")
         /\ guards' = IF h = "" THEN {} ELSE {h}
         /\ cur' = IF h = "" THEN cur ELSE Cmd(AurSyu(h), FALSE, TRUE)
         /\ pc' = IF h = "" THEN "m_flatpak"
                  ELSE IF assume_yes THEN "sys_aur_help" ELSE "sys_aur_c"
  /\ UNCHANGED <<ret, lastConfirm, idx>>
  /\ Frame

\* lines 203-228: _maybe_add_flag runs `<helper> --help` once, whatever dry_run is
sys_aur_help ==
  /\ pc = "sys_aur_help"
  /\ \E d \in BOOLEAN, c \in BOOLEAN, s \in BOOLEAN :
       cur' = [cur EXCEPT !.argv = @ \o HelpFlags(d, c, s)]
  /\ ev' = Ev("spawn", "help", TRUE)
  /\ pc' = "sys_aur_c"
  /\ UNCHANGED <<ret, lastConfirm, guards, aur_helper, idx>>
  /\ Frame

update_system ==
  \/ HaveStep("sys_apt", "apt-get", {}, "sys_apt_c", "sys_pacman")
  \/ ConfirmRun("sys_apt_c", Q_apt, Cmd(<<"apt-get", "update">>, TRUE, FALSE),
                "sys_apt2", "sys_pacman")
  \/ RunStep("sys_apt2", {"apt-get"}, Cmd(<<"apt-get", "upgrade", "-y">>, TRUE, FALSE), "sys_apt3")
  \/ RunStep("sys_apt3", {"apt-get"}, Cmd(<<"apt-get", "autoremove", "-y">>, TRUE, TRUE), "sys_apt4")
  \/ RunStep("sys_apt4", {"apt-get"}, Cmd(<<"apt-get", "autoclean", "-y">>, TRUE, TRUE), "sys_pacman")
  \/ HaveStep("sys_pacman", "pacman", {}, "sys_pacman_c", "sys_aur")
  \/ ConfirmRun("sys_pacman_c", Q_pacman, Cmd(PacmanSyu, TRUE, FALSE), "sys_aur", "sys_aur")
  \/ sys_aur_probe
  \/ sys_aur_help
  \/ ConfirmRun("sys_aur_c", Q_aur, cur, "m_flatpak", "m_flatpak")

(***************************************************************************)
(* update_flatpak                                                          *)
(***************************************************************************)
Q_flatpak == "Run flatpak update?"

\* lines 283-285
FlatpakUpdate == <<"flatpak", "update">> \o (IF assume_yes THEN <<"-y">> ELSE <<>>)

update_flatpak ==
  \/ HaveStep("fp_have", "flatpak", {}, "fp_c", "m_languages")
  \/ ConfirmRun("fp_c", Q_flatpak, Cmd(FlatpakUpdate, FALSE, TRUE),
                "m_languages", "m_languages")

(***************************************************************************)
(* update_languages                                                        *)
(***************************************************************************)
Q_pipx == "pipx upgrade --all?"

Q_pip == "Upgrade user pip packages?"

Q_npm == "npm -g update?"

Q_cargo == "cargo install-update -a?"

Q_gem == "gem update user?"

\* sys.executable
Python == "python3"

\* lines 301-334: no have() here; under dry_run the snippet is not run
lang_pip ==
  /\ pc = "lang_pip"
  /\ \E inp \in Inputs :
       LET a == confirm(assume_yes, inp) IN
         /\ lastConfirm' = [q |-> Q_pip, ok |-> a.ok, asked |-> TRUE]
         /\ ev' = Ev("confirm", Q_pip, a.ok)
         /\ IF a.ok /\ ~dry_run
            THEN Call(Cmd(<<Python, "-c", "snippet">>, FALSE, TRUE), "lang_npm")
            ELSE pc' = "lang_npm" /\ UNCHANGED <<cur, ret>>
  /\ guards' = {}
  /\ UNCHANGED <<aur_helper, idx>>
  /\ Frame

\* line 338: sudo=ctx.run_npm_sudo, the --npm-sudo flag, read only here
lang_npm_c ==
  \E s \in BOOLEAN :
    ConfirmRun("lang_npm_c", Q_npm, Cmd(<<"npm", "-g", "update">>, s, TRUE),
               "lang_cargo", "lang_npm_elif")

update_languages ==
  \/ HaveStep("lang_pipx", "pipx", {}, "lang_pipx_c", "lang_pipx_elif")
  \/ ConfirmRun("lang_pipx_c", Q_pipx, Cmd(<<"pipx", "upgrade", "--all">>, FALSE, TRUE),
                "lang_pip", "lang_pipx_elif")
  \/ HaveStep("lang_pipx_elif", "pipx", {}, "lang_pip", "lang_pip")
  \/ lang_pip
  \/ HaveStep("lang_npm", "npm", {}, "lang_npm_c", "lang_npm_elif")
  \/ lang_npm_c
  \/ HaveStep("lang_npm_elif", "npm", {}, "lang_cargo", "lang_cargo")
  \/ HaveStep("lang_cargo", "cargo-install-update", {}, "lang_cargo_c", "lang_cargo_elif")
  \/ ConfirmRun("lang_cargo_c", Q_cargo, Cmd(<<"cargo", "install-update", "-a">>, FALSE, TRUE),
                "lang_gem", "lang_cargo_elif")
  \/ HaveStep("lang_cargo_elif", "cargo", {}, "lang_gem", "lang_gem")
  \/ HaveStep("lang_gem", "gem", {}, "lang_gem_c", "lang_gem_elif")
  \/ ConfirmRun("lang_gem_c", Q_gem, Cmd(<<"gem", "update", "--user-install">>, FALSE, TRUE),
                "m_containers", "lang_gem_elif")
  \/ HaveStep("lang_gem_elif", "gem", {}, "m_containers", "m_containers")

(***************************************************************************)
(* update_containers                                                       *)
(***************************************************************************)
Q_docker == "Pull images for running containers?"

DockerPull == <<"bash", "-c", "docker ps --format '{{.Image}}' | xargs -r -n1 docker pull">>

update_containers ==
  \/ HaveStep("ct_have", "docker", {}, "ct_c", "m_finished")
  \/ ConfirmRun("ct_c", Q_docker, Cmd(DockerPull, FALSE, TRUE), "ct_hint", "m_finished")
  \/ LogStep("ct_hint", "m_finished")

(***************************************************************************)
(* remove_orphans                                                          *)
(***************************************************************************)
Q_orphans == "Remove these <n> orphans with pacman -Rns?"

Pkgs(n) == [k \in 1..n |-> "pkg"]

\* lines 502-505
PacmanRns(n) ==
  <<"pacman", "-Rns">> \o (IF assume_yes THEN <<"--noconfirm">> ELSE <<>>) \o Pkgs(n)

\* a faulty remove_orphans that goes on with an empty list
ro_query_unchecked ==
  /\ pc = "ro_query"
  /\ \E failed \in BOOLEAN, n \in 0..MaxOrphans :
       /\ ev' = [kind |-> "spawn", what |-> "pacman -Qtdq", ok |-> ~failed,
                 listed |-> IF failed THEN 0 ELSE n]
       /\ IF failed
          THEN pc' = "cl_aur" /\ UNCHANGED cur
          ELSE pc' = "ro_c" /\ cur' = Cmd(PacmanRns(n), TRUE, TRUE)
  /\ UNCHANGED <<ret, lastConfirm, guards, aur_helper, idx>>
  /\ Frame

\* lines 475-496: `pacman -Qtdq` is run with subprocess.run, whatever dry_run
\* is; an exception or an empty list ends the function
ro_query ==
  /\ pc = "ro_query"
  /\ \E failed \in BOOLEAN, n \in 0..MaxOrphans :
       /\ ev' = [kind |-> "spawn", what |-> "pacman -Qtdq", ok |-> ~failed,
                 listed |-> IF failed THEN 0 ELSE n]
       /\ IF failed \/ n = 0
          THEN pc' = "cl_aur" /\ UNCHANGED cur
          ELSE pc' = "ro_c" /\ cur' = Cmd(PacmanRns(n), TRUE, TRUE)
  /\ UNCHANGED <<ret, lastConfirm, guards, aur_helper, idx>>
  /\ Frame

remove_orphans ==
  \/ HaveStep("ro_have", "pacman", {"pacman"}, "ro_query", "cl_aur")
  \/ ro_query
  \/ ConfirmRun("ro_c", Q_orphans, cur, "cl_aur", "cl_aur")

(***************************************************************************)
(* cleanup                                                                 *)
(***************************************************************************)
AurCaches == <<"~/.cache/yay", "~/.cache/paru", "~/.cache/pikaur">>

PipCaches == <<"~/.cache/pip/http", "~/.cache/pip/selfcheck">>

\* lines 382-393: stray *.part files of /var/cache/pacman/pkg
cl_part ==
  /\ pc = "cl_part"
  /\ \E found \in BOOLEAN, removed \in BOOLEAN :
       ev' = IF ~found THEN NoEv
             ELSE IF dry_run THEN Ev("would_remove", "part", TRUE)
             ELSE Ev("unlink", "part", removed)
  /\ pc' = "cl_orphans"
  /\ guards' = guards \cap {"pacman"}
  /\ UNCHANGED <<cur, ret, lastConfirm, aur_helper, idx>>
  /\ Frame

\* lines 395-397: --remove-orphans is read here
cl_orphans ==
  /\ pc = "cl_orphans"
  /\ \E b \in BOOLEAN :
       /\ args' = args @@ ("remove_orphans" :> b)
       /\ pc' = IF b THEN "ro_have" ELSE "cl_aur"
  /\ ev' = NoEv
  /\ UNCHANGED <<step, child, pipe, emitted, term, logf, rc, ran, tried, writes, exc,
                 exitCode, cur, ret, lastConfirm, guards, aur_helper, idx>>

\* `for p in paths: if p.exists(): ctx.run(["rm", "-rf", str(p)], allow_fail=True)`
\* at label l, then on to label n
RmLoop(l, paths, n) ==
  /\ pc = l
  /\ guards' = {}
  /\ IF idx <= Len(paths)
     THEN /\ idx' = idx + 1
          /\ \E exists \in BOOLEAN :
               /\ ev' = Ev("exists", paths[idx], exists)
               /\ IF exists THEN Call(Cmd(<<"rm", "-rf", paths[idx]>>, FALSE, TRUE), l)
                  ELSE pc' = l /\ UNCHANGED <<cur, ret>>
     ELSE /\ idx' = 1
          /\ ev' = NoEv
          /\ pc' = n
          /\ UNCHANGED <<cur, ret>>
  /\ UNCHANGED <<lastConfirm, aur_helper>>
  /\ Frame

cleanup ==
  \/ HaveStep("cl_pacman", "pacman", {}, "cl_paccache", "cl_aur")
  \/ HaveStep("cl_paccache", "paccache", {"pacman"}, "cl_pc1", "cl_scc")
  \/ RunStep("cl_pc1", {"pacman", "paccache"}, Cmd(<<"paccache", "-rk0">>, TRUE, TRUE), "cl_pc2")
  \/ RunStep("cl_pc2", {"pacman", "paccache"}, Cmd(<<"paccache", "-ruk0">>, TRUE, TRUE), "cl_part")
  \/ RunStep("cl_scc", {"pacman"}, Cmd(<<"pacman", "-Scc", "--noconfirm">>, TRUE, TRUE), "cl_part")
  \/ cl_part
  \/ cl_orphans
  \/ RmLoop("cl_aur", AurCaches, "cl_flatpak")
  \/ HaveStep("cl_flatpak", "flatpak", {}, "cl_flatpak_run", "cl_npm")
  \/ RunStep("cl_flatpak_run", {"flatpak"},
             Cmd(<<"flatpak", "uninstall", "--unused", "-y">>, FALSE, TRUE), "cl_npm")
  \/ HaveStep("cl_npm", "npm", {}, "cl_npm_run", "cl_pip")
  \/ RunStep("cl_npm_run", {"npm"}, Cmd(<<"npm", "cache", "clean", "--force">>, FALSE, TRUE),
             "cl_pip")
  \/ RunStep("cl_pip", {}, Cmd(<<Python, "-m", "pip", "cache", "purge">>, FALSE, TRUE),
             "cl_pipsub")
  \/ RmLoop("cl_pipsub", PipCaches, "m_deep")

(***************************************************************************)
(* cleanup_deep                                                            *)
(***************************************************************************)
\* what ~/.cache may hold: the three kept names and two others
CacheNames == <<"qutebrowser", "mozilla", "chromium", "pip", "thumbnails">>

\* a faulty whitelist that forgets chromium
keep_fewer == {"qutebrowser", "mozilla"}

\* line 458
keep == {"qutebrowser", "mozilla", "chromium"}

\* lines 455-465: `for child in base.iterdir()` under ctx.aggressive_cache
dc_aggressive ==
  /\ pc = "dc_aggr"
  /\ guards' = {}
  /\ IF args.aggressive_cache /\ idx <= Len(CacheNames)
     THEN /\ idx' = idx + 1
          /\ \E present \in BOOLEAN :
               IF present /\ CacheNames[idx] \notin keep
               THEN /\ ev' = Ev("iterdir", CacheNames[idx], TRUE)
                    /\ Call(Cmd(<<"rm", "-rf", CacheNames[idx]>>, FALSE, TRUE), "dc_aggr")
               ELSE /\ ev' = IF present THEN Ev("keep", CacheNames[idx], TRUE) ELSE NoEv
                    /\ pc' = "dc_aggr"
                    /\ UNCHANGED <<cur, ret>>
     ELSE /\ idx' = 1
          /\ ev' = NoEv
          /\ pc' = "m_llm"
          /\ UNCHANGED <<cur, ret>>
  /\ UNCHANGED <<lastConfirm, aur_helper>>
  /\ Frame

cleanup_deep ==
  \/ HaveStep("dc_docker", "docker", {}, "dc_docker_run", "dc_journal")
  \/ RunStep("dc_docker_run", {"docker"},
             Cmd(<<"docker", "system", "prune", "-af", "--volumes">>, FALSE, TRUE), "dc_journal")
  \/ HaveStep("dc_journal", "journalctl", {}, "dc_j1", "dc_go")
  \/ RunStep("dc_j1", {"journalctl"}, Cmd(<<"journalctl", "--vacuum-time=7d">>, TRUE, TRUE), "dc_j2")
  \/ RunStep("dc_j2", {"journalctl"}, Cmd(<<"journalctl", "--vacuum-size=200M">>, TRUE, TRUE), "dc_go")
  \/ HaveStep("dc_go", "go", {}, "dc_go_run", "dc_yarn")
  \/ RunStep("dc_go_run", {"go"}, Cmd(<<"go", "clean", "-modcache">>, FALSE, TRUE), "dc_yarn")
  \/ HaveStep("dc_yarn", "yarn", {}, "dc_yarn_run", "dc_cargo")
  \/ RunStep("dc_yarn_run", {"yarn"}, Cmd(<<"yarn", "cache", "clean">>, FALSE, TRUE), "dc_cargo")
  \/ HaveStep("dc_cargo", "cargo-cache", {}, "dc_cargo_run", "dc_flatpak")
  \/ RunStep("dc_cargo_run", {"cargo-cache"}, Cmd(<<"cargo", "cache", "-a">>, FALSE, TRUE),
             "dc_flatpak")
  \/ HaveStep("dc_flatpak", "flatpak", {}, "dc_flatpak_run", "dc_aggr")
  \/ RunStep("dc_flatpak_run", {"flatpak"}, Cmd(<<"flatpak", "repair", "-y">>, FALSE, TRUE),
             "dc_aggr")
  \/ dc_aggressive

(***************************************************************************)
(* Ctx.run and its child process                                           *)
(*                                                                         *)
(* Each statement of Ctx.run is written in two parts: what it does to the   *)
(* control state (pc, child, rc, exc), and what it prints and logs (term,   *)
(* logf).  No statement of the program branches on the text a child prints, *)
(* so the specification of the whole run leaves the texts out (Quiet) and   *)
(* the specification of one Ctx.run call keeps them.                        *)
(***************************************************************************)
Line(t, n) == [t |-> t, n |-> n]

NoChild == [state |-> "none", code |-> 0]

\* the exit codes of a child: success and two failures
ExitCodes == {0, 1, 2}

TeeVars == <<pipe, emitted, term, logf>>

Quiet(A) == A /\ UNCHANGED TeeVars

\* a faulty append that writes the line at the front of the file
LogAppend_front(f, line, written) == IF written THEN <<line>> \o f ELSE f

\* Ctx.log(msg): print, then append to the log file; a failing append is
\* swallowed (lines 74-78)
LogAppend(f, line, written) == IF written THEN Append(f, line) ELSE f

Ctx_log(line) ==
  /\ term' = Append(term, line)
  /\ \E w \in BOOLEAN : logf' = LogAppend(logf, line, w)

\* a faulty Ctx.run that ignores dry_run
Ctx_run_enter_executes ==
  /\ pc = "run"
  /\ rc' = rc
  /\ pc' = "run_popen"
  /\ ev' = NoEv
  /\ UNCHANGED <<ret, args, step, cur, child, lastConfirm, guards, ran, tried, writes, exc,
                 exitCode, aur_helper, idx>>

\* lines 95-103: under dry_run the command is only logged and 0 returned
Ctx_run_enter ==
  /\ pc = "run"
  /\ IF dry_run THEN rc' = 0 /\ pc' = "run_ret" ELSE rc' = rc /\ pc' = "run_popen"
  /\ ev' = NoEv
  /\ UNCHANGED <<ret, args, step, cur, child, lastConfirm, guards, ran, tried, writes, exc,
                 exitCode, aur_helper, idx>>

Tee_enter ==
  /\ Ctx_log(Line(IF dry_run THEN "dry" ELSE "plus", 0))
  /\ UNCHANGED <<pipe, emitted>>

\* what lines 106-113 can do: start the child, raise FileNotFoundError (the
\* executable is missing), or raise another OSError (the log file cannot be
\* opened, the executable cannot be executed)
PopenOutcomes == {"started", "FileNotFoundError", "OSError"}

\* lines 106-113 and 131-135: only FileNotFoundError is caught
Ctx_run_popen ==
  /\ pc = "run_popen"
  /\ \E o \in PopenOutcomes :
       /\ ev' = Ev("exec", FullArgv(cur)[1], o = "started")
       /\ IF o = "started"
          THEN /\ child' = [state |-> "running", code |-> 0]
               /\ pc' = "run_loop"
               /\ UNCHANGED <<rc, exc>>
          ELSE /\ child' = child
               /\ IF o = "FileNotFoundError" /\ cur.allow_fail
                  THEN rc' = 127 /\ pc' = "run_ret" /\ exc' = exc
                  ELSE rc' = rc /\ pc' = "except" /\ exc' = o
  /\ UNCHANGED <<ret, args, step, cur, lastConfirm, guards, ran, tried, writes, exitCode,
                 aur_helper, idx>>

\* line 132: "Command not found" is logged in the FileNotFoundError handler
Tee_popen ==
  /\ IF pc' = "run_ret" \/ exc' = "FileNotFoundError"
     THEN Ctx_log(Line("notfound", 0))
     ELSE UNCHANGED <<term, logf>>
  /\ UNCHANGED <<pipe, emitted>>

\* the child writes a line to stdout or stderr; both are the one pipe
\* (stderr=subprocess.STDOUT)
child_emit ==
  /\ child.state = "running"
  /\ Len(emitted) < MaxLines
  /\ LET line == Line("out", Len(emitted) + 1) IN
       /\ emitted' = Append(emitted, line)
       /\ pipe' = Append(pipe, line)
  /\ UNCHANGED <<pc, ret, args, step, cur, child, term, logf, rc, ev, lastConfirm, guards,
                 ran, tried, writes, exc, exitCode, aur_helper, idx>>

\* the child closes its output
child_close ==
  /\ child.state = "running"
  /\ child' = [child EXCEPT !.state = "closed"]
  /\ UNCHANGED <<pc, ret, args, step, cur, pipe, emitted, term, logf, rc, ev, lastConfirm,
                 guards, ran, tried, writes, exc, exitCode, aur_helper, idx>>

\* the child exits
child_exit ==
  /\ child.state = "closed"
  /\ \E c \in ExitCodes : child' = [state |-> "exited", code |-> c]
  /\ UNCHANGED <<pc, ret, args, step, cur, pipe, emitted, term, logf, rc, ev, lastConfirm,
                 guards, ran, tried, writes, exc, exitCode, aur_helper, idx>>

\* lines 115-122: one turn of `for line in proc.stdout`
Ctx_run_read ==
  /\ pc = "run_loop"
  /\ pipe # <<>>
  /\ term' = Append(term, Head(pipe))
  /\ \E w \in BOOLEAN : logf' = LogAppend(logf, Head(pipe), w)
  /\ pipe' = Tail(pipe)
  /\ ev' = NoEv
  /\ UNCHANGED <<pc, ret, args, step, cur, child, emitted, rc, lastConfirm, guards, ran,
                 tried, writes, exc, exitCode, aur_helper, idx>>

\* the for loop ends at end of file: the pipe is drained and closed
Ctx_run_eof ==
  /\ pc = "run_loop"
  /\ pipe = <<>>
  /\ child.state \in {"closed", "exited"}
  /\ pc' = "run_wait"
  /\ ev' = NoEv
  /\ UNCHANGED <<ret, args, step, cur, child, rc, lastConfirm, guards, ran, tried, writes,
                 exc, exitCode, aur_helper, idx>>

\* a faulty wait that returns while the child is still alive
WaitReturns_early == child.state \in {"closed", "exited"}

\* line 123: proc.wait() returns once the child has exited
WaitReturns == child.state = "exited"

\* a faulty Ctx.run that raises on every non-zero exit, allow_fail or not
Ctx_run_wait_strict ==
  /\ pc = "run_wait"
  /\ WaitReturns
  /\ IF child.code # 0
     THEN rc' = rc /\ pc' = "except" /\ exc' = "CalledProcessError"
     ELSE rc' = child.code /\ pc' = "run_ret" /\ exc' = exc
  /\ child' = IF child.state = "exited" THEN NoChild ELSE child
  /\ ev' = Ev("wait", "", child.code = 0)
  /\ UNCHANGED <<ret, args, step, cur, lastConfirm, guards, ran, tried, writes, exitCode,
                 aur_helper, idx>>

\* lines 123-130
Ctx_run_wait ==
  /\ pc = "run_wait"
  /\ WaitReturns
  /\ IF child.code # 0 /\ ~cur.allow_fail
     THEN rc' = rc /\ pc' = "except" /\ exc' = "CalledProcessError"
     ELSE rc' = child.code /\ pc' = "run_ret" /\ exc' = exc
  /\ child' = IF child.state = "exited" THEN NoChild ELSE child
  /\ ev' = Ev("wait", "", child.code = 0)
  /\ UNCHANGED <<ret, args, step, cur, lastConfirm, guards, ran, tried, writes, exitCode,
                 aur_helper, idx>>

Tee_wait ==
  /\ IF child.code # 0 THEN Ctx_log(Line("failed", child.code)) ELSE UNCHANGED <<term, logf>>
  /\ UNCHANGED <<pipe, emitted>>

\* Ctx.run returns rc to the statement after the call; no caller keeps it
Ctx_run_return ==
  /\ pc = "run_ret"
  /\ pc' = ret
  /\ ret' = ""
  /\ cur' = NoCmd
  /\ rc' = 0
  /\ ev' = Ev("return", "", rc = 0)
  /\ UNCHANGED <<args, step, child, lastConfirm, guards, ran, tried, writes, exc, exitCode,
                 aur_helper, idx>>

Tee_return ==
  /\ term' = <<>>
  /\ logf' = <<>>
  /\ emitted' = <<>>
  /\ pipe' = pipe

\* Ctx.run in the run of main
Ctx_run ==
  \/ Quiet(Ctx_run_enter)
  \/ Quiet(Ctx_run_popen)
  \/ Quiet(Ctx_run_eof)
  \/ Quiet(Ctx_run_wait)
  \/ Quiet(Ctx_run_return)

\* the child of Ctx.run in the run of main
child_process ==
  \/ child_close
  \/ child_exit

\* Ctx.run and its child with what they print
Ctx_run_tee ==
  \/ Ctx_run_enter /\ Tee_enter
  \/ Ctx_run_popen /\ Tee_popen
  \/ Ctx_run_read
  \/ Quiet(Ctx_run_eof)
  \/ Ctx_run_wait /\ Tee_wait
  \/ Ctx_run_return /\ Tee_return
  \/ child_emit
  \/ child_close
  \/ child_exit

(***************************************************************************)
(* The summarizers                                                         *)
(***************************************************************************)
\* the characters of an LLM response or of Codex's output
RespChars == {"x", " "}

Responses == Texts(RespChars, MaxResp)

Other(b) == IF b = "openai" THEN "codex" ELSE "openai"

\* ctx.summary_file.write_text(text)
Written(b, text) == Append(writes, [by |-> b, text |-> text])

\* What one call of summarize_with_openai does (lines 603-663): r is what it
\* returns ("raised" for an exception it lets through), w the summary file's
\* writes after it, e its effect.
\*   how = "noprompt"  build_summary_prompt returned None
\*         "nokey"     OPENAI_API_KEY is not set
\*         "error"     the request or json.loads raised
\*         "nochoices" the reply holds no choices
\*         "malformed" the reply is not a JSON object
\*         "reply"     the reply's first choice holds `content`
openai_result(how, content) ==
  IF dry_run THEN [r |-> "True", w |-> writes, e |-> NoEv]
  ELSE IF how \in {"noprompt", "nokey"} THEN [r |-> "False", w |-> writes, e |-> NoEv]
  ELSE IF how \in {"error", "nochoices"}
    THEN [r |-> "False", w |-> writes, e |-> Ev("http", "openai", FALSE)]
  ELSE IF how = "malformed"
    THEN [r |-> "raised", w |-> writes, e |-> Ev("http", "openai", FALSE)]
  ELSE IF Strip(content) = <<>>
    THEN [r |-> "False", w |-> writes, e |-> Ev("http", "openai", TRUE)]
  ELSE [r |-> "True", w |-> Written("openai", Strip(content)),
        e |-> Ev("http", "openai", TRUE)]

OpenAIHow == {"noprompt", "nokey", "error", "nochoices", "malformed", "reply"}

\* lines 704-707, 746-749, 755-758: `if stdout_txt:` write it as the summary
codex_fallback(stdout_txt) ==
  IF stdout_txt # <<>> THEN Written("codex", stdout_txt) ELSE writes

\* What one call of summarize_with_codex does (lines 671-763).
\*   how = "noprompt"  build_summary_prompt returned None
\*         "nocodex"   have("codex") is false
\*         "error"     subprocess.run raised (a timeout, ...)
\*         "nonzero"   codex exited with a non-zero code
\*         "unparsed"  parse_codex_json returned None
\*         "parsed"    parse_codex_json returned a dict whose response is
\*                     `response`; its stdout is then not empty
\*   stdout is what codex printed
codex_result(how, stdout, response) ==
  LET stdout_txt == Strip(stdout) IN
  IF dry_run THEN [r |-> "True", w |-> writes, e |-> NoEv]
  ELSE IF how = "noprompt" THEN [r |-> "False", w |-> writes, e |-> NoEv]
  ELSE IF how = "nocodex" THEN [r |-> "False", w |-> writes, e |-> Ev("which", "codex", FALSE)]
  ELSE IF how = "error"
    THEN [r |-> "False", w |-> writes, e |-> Ev("spawn", "codex", FALSE)]
  ELSE IF how \in {"nonzero", "unparsed"}
    THEN [r |-> "False", w |-> codex_fallback(stdout_txt), e |-> Ev("spawn", "codex", TRUE)]
  ELSE IF Strip(response) = <<>>
    THEN [r |-> IF Strip(stdout_txt) # <<>> THEN "True" ELSE "False",
          w |-> codex_fallback(stdout_txt), e |-> Ev("spawn", "codex", TRUE)]
  ELSE [r |-> "True", w |-> Written("codex", Strip(response)),
        e |-> Ev("spawn", "codex", TRUE)]

CodexHow == {"noprompt", "nocodex", "error", "nonzero", "unparsed", "parsed"}

\* the calls codex can answer: parsed JSON has a non-empty stdout
CodexCalls ==
  {c \in [how : CodexHow, stdout : Responses, response : Responses] :
     c.how = "parsed" => Strip(c.stdout) # <<>>}

\* the results a call of backend b can have
Results(b) ==
  IF b = "openai"
  THEN {openai_result(h, c) : h \in OpenAIHow, c \in Responses}
  ELSE {codex_result(c.how, c.stdout, c.response) : c \in CodexCalls}

\* a faulty `if not ok:` that always tries the other backend
NeedsFallback_always(r) == TRUE

\* lines 894 and 899: `if not ok:` try the other backend
NeedsFallback(r) == r = "False"

\* one summarizer call of main at label l for backend b
Summarize(l, b, lFalse) ==
  /\ pc = l
  /\ \E res \in Results(b) :
       /\ tried' = Append(tried, [b |-> b, r |-> res.r])
       /\ writes' = res.w
       /\ ev' = res.e
       /\ IF res.r = "raised" THEN pc' = "except" /\ exc' = "AttributeError"
          ELSE /\ exc' = exc
               /\ pc' = IF NeedsFallback(res.r) THEN lFalse ELSE "m_final"
  /\ UNCHANGED <<ret, args, step, cur, child, pipe, emitted, term, logf, rc, lastConfirm,
                 guards, ran, exitCode, aur_helper, idx>>

(***************************************************************************)
(* main                                                                    *)
(***************************************************************************)
\* what a statement of main before the try block leaves alone
MainFrame ==
  UNCHANGED <<ret, step, cur, child, pipe, emitted, term, logf, rc, lastConfirm, guards,
              ran, tried, writes, exc, aur_helper, idx>>

\* line 822
main_parse ==
  /\ pc = "parse"
  /\ \E raw \in RawArgs :
       /\ args' = parse_args_result(raw)
       /\ ev' = Ev("parse", raw, TRUE)
  /\ pc' = "git"
  /\ exitCode' = exitCode
  /\ MainFrame

\* what `git rev-parse --is-inside-work-tree` can do: print "true", print
\* "false" (inside the .git directory), exit non-zero (check=True raises),
\* or not be installed
GitProbes ==
  {[raised |-> "", stdout |-> "true"],
   [raised |-> "", stdout |-> "false"],
   [raised |-> "CalledProcessError", stdout |-> ""],
   [raised |-> "FileNotFoundError", stdout |-> ""]}

\* a faulty in_git_repo that takes a failed probe for a worktree
in_git_repo_lenient(p) == p.raised # "" \/ p.stdout = "true"

\* lines 150-163: `except Exception: return False`
in_git_repo(p) == IF p.raised # "" THEN FALSE ELSE p.stdout = "true"

\* lines 824-830: in_git_repo runs `git rev-parse`; --skip-git-repo-check is
\* read here
main_git_check ==
  /\ pc = "git"
  /\ \E skip \in BOOLEAN, p \in GitProbes :
       LET inside == in_git_repo(p) IN
         /\ args' = args
         /\ ev' = IF skip THEN NoEv
                  ELSE [kind |-> "spawn", what |-> "git", ok |-> inside, probe |-> p]
         /\ IF ~skip /\ ~inside
            THEN pc' = "done" /\ exitCode' = 2
            ELSE pc' = "logdir" /\ exitCode' = exitCode
  /\ MainFrame

\* lines 166-193, called from line 837: the prompt is asked unless
\* assume_yes, directories are skipped, dry_run removes nothing
clear_log_dir(files, dirs, inp, removed) ==
  IF ~files /\ ~dirs THEN NoEv
  ELSE IF ~confirm(assume_yes, inp).ok THEN Ev("canceled", "log", TRUE)
  ELSE IF ~files THEN NoEv
  ELSE IF dry_run THEN Ev("would_remove", "log", TRUE)
  ELSE Ev("unlink", "log", removed)

\* lines 833-841: --clear-logs is read here
main_log_dir ==
  /\ pc = "logdir"
  /\ \E clear \in BOOLEAN :
       /\ args' = args
       /\ IF clear
          THEN \E files \in BOOLEAN, dirs \in BOOLEAN, inp \in Inputs, removed \in BOOLEAN :
                 ev' = clear_log_dir(files, dirs, inp, removed)
          ELSE ev' = Ev("mkdir", "log_dir", TRUE)
  /\ pc' = "m_system"
  /\ exitCode' = exitCode
  /\ MainFrame

\* `if args.<area>: update_<area>(ctx)` at label l
MainCall(l, area, entry, next) ==
  /\ pc = l
  /\ IF args[area]
     THEN /\ step' = area
          /\ ran' = ran \cup {area}
          /\ pc' = entry
     ELSE /\ pc' = next
          /\ UNCHANGED <<step, ran>>
  /\ lastConfirm' = NoConfirm
  /\ guards' = {}
  /\ ev' = NoEv
  /\ UNCHANGED <<ret, args, cur, child, pipe, emitted, term, logf, rc, tried, writes, exc,
                 exitCode, aur_helper, idx>>

\* lines 875-882
main_updates ==
  \/ MainCall("m_system", "system", "sys_apt", "m_flatpak")
  \/ MainCall("m_flatpak", "flatpak", "fp_have", "m_languages")
  \/ MainCall("m_languages", "languages", "lang_pipx", "m_containers")
  \/ MainCall("m_containers", "containers", "ct_have", "m_finished")

\* lines 884-887: --no-clean is read here (ctx.clean_after)
\* a faulty main that runs cleanup whatever --no-clean says
main_cleanup_always ==
  /\ pc = "m_finished"
  /\ \E b \in BOOLEAN :
       /\ args' = args @@ ("no_clean" :> b)
       /\ step' = "cleanup" /\ ran' = ran \cup {"cleanup"} /\ pc' = "cl_pacman"
  /\ lastConfirm' = NoConfirm
  /\ guards' = {}
  /\ ev' = NoEv
  /\ UNCHANGED <<ret, cur, child, pipe, emitted, term, logf, rc, tried, writes, exc,
                 exitCode, aur_helper, idx>>

\* lines 886-887: --no-clean is read here (clean_after = not args.no_clean)
main_cleanup ==
  /\ pc = "m_finished"
  /\ \E b \in BOOLEAN :
       /\ args' = args @@ ("no_clean" :> b)
       /\ IF ~b
          THEN step' = "cleanup" /\ ran' = ran \cup {"cleanup"} /\ pc' = "cl_pacman"
          ELSE pc' = "m_llm" /\ UNCHANGED <<step, ran>>
  /\ lastConfirm' = NoConfirm
  /\ guards' = {}
  /\ ev' = NoEv
  /\ UNCHANGED <<ret, cur, child, pipe, emitted, term, logf, rc, tried, writes, exc,
                 exitCode, aur_helper, idx>>

\* lines 888-889
main_cleanup_deep ==
  /\ pc = "m_deep"
  /\ IF args.deep_clean
     THEN step' = "deep" /\ ran' = ran \cup {"deep"} /\ pc' = "dc_docker"
     ELSE pc' = "m_llm" /\ UNCHANGED <<step, ran>>
  /\ lastConfirm' = NoConfirm
  /\ guards' = {}
  /\ ev' = NoEv
  /\ UNCHANGED <<ret, args, cur, child, pipe, emitted, term, logf, rc, tried, writes, exc,
                 exitCode, aur_helper, idx>>

\* a faulty backend choice that ignores --use-codex
llm_backend_openai(use_codex, use_openai) == "openai"

\* lines 843-847: openai unless --use-codex
llm_backend(use_codex, use_openai) ==
  LET b1 == IF use_codex THEN "codex" ELSE "openai" IN
    IF use_openai THEN "openai" ELSE b1

\* --use-openai and --use-codex are mutually exclusive (line 795)
BackendFlags == {f \in [use_codex : BOOLEAN, use_openai : BOOLEAN] : ~(f.use_codex /\ f.use_openai)}

\* a faulty main that summarizes whatever --no-llm says
main_llm_always ==
  /\ pc = "m_llm"
  /\ \E b \in BOOLEAN, f \in BackendFlags :
       /\ args' = args @@ ("no_llm" :> b) @@ ("use_codex" :> f.use_codex)
                    @@ ("llm_backend" :> llm_backend(f.use_codex, f.use_openai))
       /\ step' = "llm" /\ ran' = ran \cup {"llm"} /\ pc' = "sum_primary"
  /\ lastConfirm' = NoConfirm
  /\ guards' = {}
  /\ ev' = NoEv
  /\ UNCHANGED <<ret, cur, child, pipe, emitted, term, logf, rc, tried, writes, exc,
                 exitCode, aur_helper, idx>>

\* line 891: --no-llm and the backend flags are read here
main_llm ==
  /\ pc = "m_llm"
  /\ \E b \in BOOLEAN, f \in BackendFlags :
       /\ args' = args @@ ("no_llm" :> b) @@ ("use_codex" :> f.use_codex)
                    @@ ("llm_backend" :> llm_backend(f.use_codex, f.use_openai))
       /\ IF ~b
          THEN step' = "llm" /\ ran' = ran \cup {"llm"} /\ pc' = "sum_primary"
          ELSE pc' = "m_final" /\ UNCHANGED <<step, ran>>
  /\ lastConfirm' = NoConfirm
  /\ guards' = {}
  /\ ev' = NoEv
  /\ UNCHANGED <<ret, cur, child, pipe, emitted, term, logf, rc, tried, writes, exc,
                 exitCode, aur_helper, idx>>

\* lines 892-901
main_summarize ==
  \/ Summarize("sum_primary", args.llm_backend, "sum_fallback")
  \/ Summarize("sum_fallback", Other(args.llm_backend), "m_final")

\* what the end of main forgets: the locals of the functions it called
Forget ==
  /\ ret' = ""
  /\ cur' = NoCmd
  /\ pipe' = <<>>
  /\ emitted' = <<>>
  /\ term' = <<>>
  /\ logf' = <<>>
  /\ lastConfirm' = NoConfirm
  /\ guards' = {}
  /\ aur_helper' = ""
  /\ idx' = 1

\* lines 903-908
main_return ==
  /\ pc = "m_final"
  /\ pc' = "done"
  /\ exitCode' = 0
  /\ ev' = NoEv
  /\ Forget
  /\ UNCHANGED <<args, step, child, rc, ran, tried, writes, exc>>

\* the statements inside the try block of lines 874-908
InTry == pc \notin {"parse", "git", "logdir", "except", "done"}

\* SIGINT inside the try block.  Ctrl+C at the terminal reaches the child
\* too (it is in the foreground process group); a signal sent to the updater
\* alone leaves the child running, and nothing waits for it any more.
KeyboardInterrupt ==
  /\ InTry
  /\ exc' = "KeyboardInterrupt"
  /\ pc' = "except"
  /\ ev' = NoEv
  /\ \E killed \in BOOLEAN : child' = IF killed THEN NoChild ELSE child
  /\ Forget
  /\ UNCHANGED <<args, step, rc, ran, tried, writes, exitCode>>

\* lines 910-915
main_except ==
  /\ pc = "except"
  /\ exitCode' = IF exc = "KeyboardInterrupt" THEN 130 ELSE 1
  /\ pc' = "done"
  /\ ev' = NoEv
  /\ Forget
  /\ UNCHANGED <<args, step, child, rc, ran, tried, writes, exc>>

main ==
  \/ main_parse
  \/ main_git_check
  \/ main_log_dir
  \/ main_updates
  \/ main_cleanup
  \/ main_cleanup_deep
  \/ main_llm
  \/ main_summarize
  \/ main_return
  \/ main_except

(***************************************************************************)
(* The run of the updater                                                  *)
(***************************************************************************)
InitRun ==
  /\ pc = "parse"
  /\ ret = ""
  /\ args = <<>>
  /\ step = ""
  /\ cur = NoCmd
  /\ child = NoChild
  /\ pipe = <<>>
  /\ emitted = <<>>
  /\ term = <<>>
  /\ logf = <<>>
  /\ rc = 0
  /\ ev = NoEv
  /\ lastConfirm = NoConfirm
  /\ guards = {}
  /\ ran = {}
  /\ tried = <<>>
  /\ writes = <<>>
  /\ exc = ""
  /\ exitCode = 256
  /\ aur_helper = ""
  /\ idx = 1

\* the log directory is not looked into
NoLogs ==
  /\ log_dir = {}
  /\ entries = <<>>
  /\ answer = ""
  /\ unlinks = <<>>

\* the PR bot before github_login, with restart.flag there or not
BotStart(f) ==
  /\ bot = "login"
  /\ flag = f
  /\ created = IF f THEN 1 ELSE 0
  /\ deleted = 0
  /\ cycles = 0
  /\ fresh = f
  /\ attempt = 1
  /\ printed = ""
  /\ raised = ""
  /\ raised_at = ""
  /\ issue_txt = 0
  /\ lookups = 0
  /\ clicks = 0
  /\ removals = 0

\* the codec auditor before scan_media, on the tree m
CodecStart(m) ==
  /\ media = m
  /\ pos = 1
  /\ report = <<>>

\* the other programs are not running
NoOthers == BotStart(FALSE) /\ CodecStart(<<>>)

Init == InitRun /\ NoLogs /\ NoOthers

Next ==
  \/ main /\ UNCHANGED Elsewhere
  \/ update_system /\ UNCHANGED Elsewhere
  \/ update_flatpak /\ UNCHANGED Elsewhere
  \/ update_languages /\ UNCHANGED Elsewhere
  \/ update_containers /\ UNCHANGED Elsewhere
  \/ cleanup /\ UNCHANGED Elsewhere
  \/ remove_orphans /\ UNCHANGED Elsewhere
  \/ cleanup_deep /\ UNCHANGED Elsewhere
  \/ Ctx_run /\ UNCHANGED Elsewhere
  \/ child_process /\ UNCHANGED Elsewhere
  \/ KeyboardInterrupt /\ UNCHANGED Elsewhere

Spec == Init /\ [][Next]_vars

(***************************************************************************)
(* One call of Ctx.confirm and one call of Ctx.run, with what they print   *)
(***************************************************************************)
\* the calls of Ctx.run at lines 250 (strict) and 286 (allow_fail)
RunCalls == {Cmd(PacmanSyu, TRUE, FALSE), Cmd(FlatpakUpdate, FALSE, TRUE)}

\* ctx.confirm(question) on a context built from the parsed arguments
Ctx_confirm_call ==
  /\ pc = "git"
  /\ \E inp \in Inputs :
       ev' = Ev("confirm_call",
                [assume_yes |-> assume_yes, inp |-> inp, res |-> confirm(assume_yes, inp)],
                TRUE)
  /\ pc' = "call_done"
  /\ UNCHANGED <<ret, args, step, cur, child, pipe, emitted, term, logf, rc, lastConfirm,
                 guards, ran, tried, writes, exc, exitCode, aur_helper, idx>>

\* ctx.run(cmd, sudo, allow_fail) on a context built from the parsed arguments
Ctx_run_call ==
  /\ pc = "git"
  /\ \E c \in RunCalls : Call(c, "call_done")
  /\ ev' = NoEv
  /\ UNCHANGED <<args, step, child, pipe, emitted, term, logf, rc, lastConfirm, guards,
                 ran, tried, writes, exc, exitCode, aur_helper, idx>>

NextUnit ==
  \/ main_parse /\ UNCHANGED Elsewhere
  \/ Ctx_confirm_call /\ UNCHANGED Elsewhere
  \/ Ctx_run_call /\ UNCHANGED Elsewhere
  \/ Ctx_run_tee /\ UNCHANGED Elsewhere

SpecUnit == Init /\ [][NextUnit]_vars

(***************************************************************************)
(* The log directory: lines 833-862 of main, with clear_log_dir entry by   *)
(* entry                                                                   *)
(***************************************************************************)
\* what the log directory can hold before the run: the files of an earlier
\* run, and a subdirectory
OldFiles == {"update-old.log", "update-old.summary.txt"}

OldDirs == {"archive"}

\* the files of this run (lines 840-841), and a file another process makes
log_file == "update-ts.log"

summary_file == "update-ts.summary.txt"

OtherFile == "other.log"

\* Path.is_dir()
is_dir(name) == name \in OldDirs

Listings == SUBSET (OldFiles \cup OldDirs)

\* the orders in which iterdir() can yield the set S
Orders(S) ==
  {q \in [1..Cardinality(S) -> S] : \A i, j \in 1..Cardinality(S) : q[i] = q[j] => i = j}

Names(q) == {q[i] : i \in 1..Len(q)}

LogFrame ==
  UNCHANGED <<ret, step, cur, child, pipe, emitted, term, logf, rc, lastConfirm, guards,
              ran, tried, writes, exc, exitCode, aur_helper>>

\* lines 833-837: the directory is made, --clear-logs is read
main_mkdir ==
  /\ pc = "logdir"
  /\ \E clear \in BOOLEAN : pc' = IF clear THEN "cld_list" ELSE "m_banner"
  /\ ev' = Ev("mkdir", "log_dir", TRUE)
  /\ UNCHANGED <<args, idx, LogVars>>
  /\ LogFrame

\* lines 167-172: log_dir exists after line 835; the entries are listed once
clear_log_dir_list ==
  /\ pc = "cld_list"
  /\ \E q \in Orders(log_dir) :
       /\ entries' = q
       /\ pc' = IF q = <<>> THEN "m_banner"
                ELSE IF assume_yes THEN "cld_loop" ELSE "cld_prompt"
  /\ ev' = NoEv
  /\ UNCHANGED <<args, idx, log_dir, answer, unlinks>>
  /\ LogFrame

\* lines 175-180: input(...).strip().lower(), EOFError returns
clear_log_dir_answer(inp) ==
  IF inp.eof THEN "eof"
  ELSE IF Lower(Strip(inp.text)) \in YesAnswers THEN "yes" ELSE "no"

\* lines 173-180
clear_log_dir_prompt ==
  /\ pc = "cld_prompt"
  /\ \E inp \in Inputs :
       /\ answer' = clear_log_dir_answer(inp)
       /\ pc' = IF answer' = "yes" THEN "cld_loop" ELSE "m_banner"
  /\ ev' = NoEv
  /\ UNCHANGED <<args, idx, log_dir, entries, unlinks>>
  /\ LogFrame

\* a faulty loop that gives up at the first unlink() that fails
clear_log_dir_child_stops ==
  /\ pc = "cld_loop"
  /\ IF idx <= Len(entries)
     THEN LET c == entries[idx] IN
          IF is_dir(c)
          THEN /\ ev' = Ev("skip", c, TRUE)
               /\ idx' = idx + 1 /\ pc' = pc
               /\ UNCHANGED <<log_dir, unlinks>>
          ELSE IF dry_run
          THEN /\ ev' = Ev("would_remove", c, TRUE)
               /\ idx' = idx + 1 /\ pc' = pc
               /\ UNCHANGED <<log_dir, unlinks>>
          ELSE \E ok \in BOOLEAN :
                 /\ ev' = Ev("unlink", c, ok)
                 /\ unlinks' = Append(unlinks, [name |-> c, ok |-> ok])
                 /\ log_dir' = IF ok THEN log_dir \ {c} ELSE log_dir
                 /\ IF ok THEN idx' = idx + 1 /\ pc' = pc
                    ELSE idx' = 1 /\ pc' = "m_banner"
     ELSE /\ ev' = NoEv
          /\ idx' = 1
          /\ pc' = "m_banner"
          /\ UNCHANGED <<log_dir, unlinks>>
  /\ UNCHANGED <<args, entries, answer>>
  /\ LogFrame

\* lines 182-193: one round of `for child in entries`
clear_log_dir_child ==
  /\ pc = "cld_loop"
  /\ IF idx <= Len(entries)
     THEN LET c == entries[idx] IN
          /\ idx' = idx + 1
          /\ pc' = pc
          /\ IF is_dir(c)
             THEN /\ ev' = Ev("skip", c, TRUE)
                  /\ UNCHANGED <<log_dir, unlinks>>
             ELSE IF dry_run
             THEN /\ ev' = Ev("would_remove", c, TRUE)
                  /\ UNCHANGED <<log_dir, unlinks>>
             ELSE \E ok \in BOOLEAN :
                    /\ ev' = Ev("unlink", c, ok)
                    /\ unlinks' = Append(unlinks, [name |-> c, ok |-> ok])
                    /\ log_dir' = IF ok THEN log_dir \ {c} ELSE log_dir
     ELSE /\ ev' = NoEv
          /\ idx' = 1
          /\ pc' = "m_banner"
          /\ UNCHANGED <<log_dir, unlinks>>
  /\ UNCHANGED <<args, entries, answer>>
  /\ LogFrame

\* lines 839-862: the first ctx.log creates the log file (Ctx.log swallows
\* a failure to open it)
main_banner ==
  /\ pc = "m_banner"
  /\ \E ok \in BOOLEAN : log_dir' = IF ok THEN log_dir \cup {log_file} ELSE log_dir
  /\ pc' = "m_system"
  /\ ev' = NoEv
  /\ UNCHANGED <<args, idx, entries, answer, unlinks>>
  /\ LogFrame

\* another process puts a file into the log directory while clear_log_dir
\* is asking or removing
other_writer ==
  /\ pc \in {"cld_prompt", "cld_loop"}
  /\ OtherFile \notin log_dir
  /\ log_dir' = log_dir \cup {OtherFile}
  /\ UNCHANGED <<RunVars, entries, answer, unlinks>>

InitLogs ==
  /\ InitRun
  /\ log_dir \in Listings
  /\ entries = <<>>
  /\ answer = ""
  /\ unlinks = <<>>
  /\ NoOthers

NextLogs ==
  \/ main_parse /\ UNCHANGED Elsewhere
  \/ main_git_check /\ UNCHANGED Elsewhere
  \/ main_mkdir /\ UNCHANGED OtherPrograms
  \/ clear_log_dir_list /\ UNCHANGED OtherPrograms
  \/ clear_log_dir_prompt /\ UNCHANGED OtherPrograms
  \/ clear_log_dir_child /\ UNCHANGED OtherPrograms
  \/ main_banner /\ UNCHANGED OtherPrograms
  \/ other_writer /\ UNCHANGED OtherPrograms

SpecLogs == InitLogs /\ [][NextLogs]_vars

(***************************************************************************)
(* The PR-merge bot, src/auto-tooling/main.py.  bot names the statement    *)
(* that runs next; restart.flag is made, and can be removed, by other      *)
(* processes.                                                              *)
(***************************************************************************)
\* how often restart.flag is created
MaxFlags == 2

\* what a Selenium call can raise
WebErrors == {"NoSuchElementException", "TimeoutException", "WebDriverException"}

\* an exception leaves the function and the `while True` loop (lines 341-351)
Raise(e) ==
  /\ raised' = e
  /\ raised_at' = bot
  /\ bot' = "finally"
  /\ printed' = ""

\* the statement printed msg and goes on to label n
Goes(n, msg) ==
  /\ bot' = n
  /\ printed' = msg
  /\ UNCHANGED <<raised, raised_at>>

FlagFrame == UNCHANGED <<flag, created, deleted, fresh, removals>>

\* lines 43-54: no try block
github_login ==
  /\ bot = "login"
  /\ \E o \in {"ok"} \cup WebErrors :
       IF o = "ok" THEN Goes("wait", "Logged in to GitHub") ELSE Raise(o)
  /\ FlagFrame
  /\ UNCHANGED <<cycles, attempt, issue_txt, lookups, clicks>>

\* line 330
wait_for_restart_enter ==
  /\ bot = "wait"
  /\ Goes("wait_exists", "Waiting for restart.flag...")
  /\ FlagFrame
  /\ UNCHANGED <<cycles, attempt, issue_txt, lookups, clicks>>

\* a faulty poll that never sees the flag file
wait_for_restart_poll_blind ==
  /\ bot = "wait_exists"
  /\ Goes("wait_exists", "")
  /\ FlagFrame
  /\ UNCHANGED <<cycles, attempt, issue_txt, lookups, clicks>>

\* lines 331-332: `while not RESTART_FLAG.exists(): time.sleep(2)`
wait_for_restart_poll ==
  /\ bot = "wait_exists"
  /\ Goes(IF flag THEN "wait_unlink" ELSE "wait_exists", "")
  /\ FlagFrame
  /\ UNCHANGED <<cycles, attempt, issue_txt, lookups, clicks>>

\* a faulty wait_for_restart that leaves the flag file in place
wait_for_restart_unlink_keeps ==
  /\ bot = "wait_unlink"
  /\ IF flag
     THEN /\ deleted' = deleted + 1
          /\ fresh' = FALSE
          /\ Goes("latest", "Restart flag detected")
          /\ UNCHANGED <<flag>>
     ELSE Raise("FileNotFoundError") /\ UNCHANGED <<flag, deleted, fresh>>
  /\ UNCHANGED <<created, cycles, attempt, issue_txt, lookups, clicks, removals>>

\* lines 333-334: unlink() raises when the file is gone again
wait_for_restart_unlink ==
  /\ bot = "wait_unlink"
  /\ IF flag
     THEN /\ flag' = FALSE
          /\ deleted' = deleted + 1
          /\ fresh' = FALSE
          /\ Goes("latest", "Restart flag detected")
     ELSE Raise("FileNotFoundError") /\ UNCHANGED <<flag, deleted, fresh>>
  /\ UNCHANGED <<created, cycles, attempt, issue_txt, lookups, clicks, removals>>

wait_for_restart ==
  \/ wait_for_restart_enter
  \/ wait_for_restart_poll
  \/ wait_for_restart_unlink

\* lines 57-65: the cycle starts here, with no confirm lookup or click made
\* in it yet; no PR raises RuntimeError
get_latest_pr_url ==
  /\ bot = "latest"
  /\ cycles' = cycles + 1
  /\ \E o \in {"ok", "RuntimeError"} \cup WebErrors :
       IF o = "ok" THEN Goes("merge_get", "Latest PR") ELSE Raise(o)
  /\ lookups' = 0
  /\ clicks' = 0
  /\ FlagFrame
  /\ UNCHANGED <<attempt, issue_txt>>

\* line 69: driver.get(pr_url) is outside the try block
merge_get ==
  /\ bot = "merge_get"
  /\ \E o \in {"ok", "WebDriverException"} :
       IF o = "ok" THEN Goes("merge_find", "") ELSE Raise(o)

\* inside `try:` (line 72) with `except Exception` (line 206): every
\* exception but KeyboardInterrupt goes to the handler
Caught(o) == IF o = "KeyboardInterrupt" THEN Raise(o) ELSE Goes("merge_except", "")

\* lines 154-160: find_clickable_button returns a button or None
merge_find ==
  /\ bot = "merge_find"
  /\ \E o \in {"found", "RuntimeError", "WebDriverException", "KeyboardInterrupt"} :
       IF o = "found" THEN Goes("merge_click", "Merge button: using span") ELSE Caught(o)

\* lines 162-166
merge_click ==
  /\ bot = "merge_click"
  /\ \E o \in {"ok", "WebDriverException", "KeyboardInterrupt"} :
       IF o = "ok" THEN Goes("merge_confirm", "Clicked merge button") ELSE Caught(o)

\* a faulty confirm loop without the `break` of line 193
merge_confirm_no_break ==
  /\ bot = "merge_confirm"
  /\ IF attempt <= 3
     THEN /\ lookups' = lookups + 1
          /\ \E o \in {"none", "clicked", "StaleElementReferenceException",
                       "WebDriverException", "KeyboardInterrupt"} :
               CASE o = "none" ->
                      /\ Goes("merge_confirm", "Confirm button not ready")
                      /\ attempt' = attempt + 1 /\ clicks' = clicks
                 [] o = "StaleElementReferenceException" ->
                      /\ Goes("merge_confirm", "Confirm button became stale")
                      /\ attempt' = attempt + 1 /\ clicks' = clicks
                 [] o = "clicked" ->
                      /\ Goes("merge_confirm", "Clicked confirm")
                      /\ attempt' = attempt + 1 /\ clicks' = clicks + 1
                 [] OTHER -> Caught(o) /\ attempt' = 1 /\ clicks' = clicks
     ELSE /\ Goes("merge_done", "Unable to click confirm button after multiple attempts")
          /\ attempt' = 1
          /\ UNCHANGED <<lookups, clicks>>

\* lines 169-201: `for attempt in range(1, 4)`: one find_clickable_button
\* call per round, then click(); the click ends the loop, a stale button or
\* no button goes to the next round
merge_confirm ==
  /\ bot = "merge_confirm"
  /\ IF attempt <= 3
     THEN /\ lookups' = lookups + 1
          /\ \E o \in {"none", "clicked", "StaleElementReferenceException",
                       "WebDriverException", "KeyboardInterrupt"} :
               CASE o = "none" ->
                      /\ Goes("merge_confirm", "Confirm button not ready")
                      /\ attempt' = attempt + 1 /\ clicks' = clicks
                 [] o = "StaleElementReferenceException" ->
                      /\ Goes("merge_confirm", "Confirm button became stale")
                      /\ attempt' = attempt + 1 /\ clicks' = clicks
                 [] o = "clicked" ->
                      /\ Goes("merge_done", "Clicked confirm")
                      /\ attempt' = 1 /\ clicks' = clicks + 1
                 [] OTHER -> Caught(o) /\ attempt' = 1 /\ clicks' = clicks
     ELSE /\ Goes("merge_done", "Unable to click confirm button after multiple attempts")
          /\ attempt' = 1
          /\ UNCHANGED <<lookups, clicks>>

\* lines 203-204
merge_done ==
  /\ bot = "merge_done"
  /\ Goes("ds_link", "Merge flow complete")

\* a faulty handler that lets the exception go on
merge_except_reraises ==
  /\ bot = "merge_except"
  /\ Raise("RuntimeError")

\* lines 206-213: the handler prints and returns
merge_except ==
  /\ bot = "merge_except"
  /\ Goes("ds_link", "Could not merge PR")

merge_latest_pr ==
  /\ \/ (merge_get \/ merge_find \/ merge_click \/ merge_done \/ merge_except)
          /\ UNCHANGED <<attempt, lookups, clicks>>
     \/ merge_confirm
  /\ FlagFrame
  /\ UNCHANGED <<cycles, issue_txt>>

\* lines 216-225: no DeepSource link raises RuntimeError
get_deepsource_link ==
  /\ bot = "ds_link"
  /\ \E o \in {"ok", "RuntimeError"} \cup WebErrors :
       IF o = "ok" THEN Goes("ds_get", "DeepSource link") ELSE Raise(o)
  /\ FlagFrame
  /\ UNCHANGED <<cycles, attempt, issue_txt, lookups, clicks>>

\* lines 229-230: driver.get(ds_url) is outside the try block
ds_get ==
  /\ bot = "ds_get"
  /\ \E o \in {"ok", "WebDriverException"} :
       IF o = "ok" THEN Goes("ds_tab", "") ELSE Raise(o)

\* lines 231-237: a bare `except:` catches everything
ds_tab ==
  /\ bot = "ds_tab"
  /\ \E o \in {"ok", "NoSuchElementException", "WebDriverException", "KeyboardInterrupt"} :
       Goes("scrape_find",
            IF o = "ok" THEN "Navigated to Issues tab" ELSE "Could not locate Issues tab")

go_to_deepsource_issues ==
  /\ ds_get \/ ds_tab
  /\ FlagFrame
  /\ UNCHANGED <<cycles, attempt, issue_txt, lookups, clicks>>

\* inside `try:` (line 241) with `except Exception` (line 325)
Failed(o) == IF o = "KeyboardInterrupt" THEN Raise(o) ELSE Goes("scrape_except", "")

\* lines 243-251: the first issue link, and the issue page
scrape_find ==
  /\ bot = "scrape_find"
  /\ \E o \in {"ok", "NoSuchElementException", "AttributeError", "WebDriverException",
               "KeyboardInterrupt"} :
       IF o = "ok" THEN Goes("scrape_fields", "") ELSE Failed(o)
  /\ UNCHANGED issue_txt

\* lines 253-303: name, code and path have a bare `except:` and a default
\* each; the snippet loop has none
scrape_fields ==
  /\ bot = "scrape_fields"
  /\ \E o \in {"ok", "StaleElementReferenceException", "KeyboardInterrupt"} :
       IF o = "ok" THEN Goes("scrape_write", "") ELSE Failed(o)
  /\ UNCHANGED issue_txt

\* lines 321-324
scrape_write ==
  /\ bot = "scrape_write"
  /\ \E o \in {"ok", "OSError"} :
       IF o = "ok"
       THEN Goes("wait", "Saved issue.txt for Codex handoff") /\ issue_txt' = issue_txt + 1
       ELSE Failed(o) /\ UNCHANGED issue_txt

\* lines 325-326
scrape_except ==
  /\ bot = "scrape_except"
  /\ Goes("wait", "Failed to scrape issue")
  /\ UNCHANGED issue_txt

scrape_first_issue ==
  /\ scrape_find \/ scrape_fields \/ scrape_write \/ scrape_except
  /\ FlagFrame
  /\ UNCHANGED <<cycles, attempt, lookups, clicks>>

\* lines 350-351: `finally: driver.quit()`, and the exception ends the bot
driver_quit ==
  /\ bot = "finally"
  /\ bot' = "exited"
  /\ UNCHANGED <<flag, created, deleted, cycles, fresh, attempt, printed, raised,
                 raised_at, issue_txt, lookups, clicks, removals>>

\* another process creates restart.flag
flag_created ==
  /\ ~flag
  /\ created < MaxFlags
  /\ flag' = TRUE
  /\ created' = created + 1
  /\ fresh' = TRUE
  /\ UNCHANGED <<bot, deleted, cycles, attempt, printed, raised, raised_at, issue_txt,
                 lookups, clicks, removals>>

\* another process removes restart.flag
flag_removed ==
  /\ flag
  /\ flag' = FALSE
  /\ removals' = removals + 1
  /\ UNCHANGED <<bot, created, deleted, cycles, fresh, attempt, printed, raised,
                 raised_at, issue_txt, lookups, clicks>>

\* what the bot leaves alone
NotBot == <<RunVars, LogVars, CodecVars>>

InitBot ==
  /\ InitRun
  /\ NoLogs
  /\ \E f \in BOOLEAN : BotStart(f)
  /\ CodecStart(<<>>)

NextBot ==
  \/ github_login /\ UNCHANGED NotBot
  \/ wait_for_restart /\ UNCHANGED NotBot
  \/ get_latest_pr_url /\ UNCHANGED NotBot
  \/ merge_latest_pr /\ UNCHANGED NotBot
  \/ get_deepsource_link /\ UNCHANGED NotBot
  \/ go_to_deepsource_issues /\ UNCHANGED NotBot
  \/ scrape_first_issue /\ UNCHANGED NotBot
  \/ driver_quit /\ UNCHANGED NotBot
  \/ flag_created /\ UNCHANGED NotBot
  \/ flag_removed /\ UNCHANGED NotBot

SpecBot == InitBot /\ [][NextBot]_vars

\* the statements of the bot itself
BotRuns ==
  /\ \/ github_login
     \/ wait_for_restart
     \/ get_latest_pr_url
     \/ merge_latest_pr
     \/ get_deepsource_link
     \/ go_to_deepsource_issues
     \/ scrape_first_issue
     \/ driver_quit
  /\ UNCHANGED NotBot

\* The bot is one running thread: every statement ends (the Selenium waits
\* time out after 15 s, the sleeps are 2 to 5 s) and the next one is
\* executed, whatever the other processes do with the flag file.
SpecBotLive == InitBot /\ [][NextBot]_vars /\ WF_vars(BotRuns)

(***************************************************************************)
(* The codec auditor, src/temp/check_codec.py.  File names are sequences   *)
(* of characters; a compiled pattern is the set of the strings it matches  *)
(* (none of the patterns is longer than an alternation of literals, `\.?`  *)
(* written out), searched for anywhere in the name, whatever the case.     *)
(***************************************************************************)
\* the most name parts of a file name, before its extension
MaxParts == 3
\* the most entries of the media tree
MaxFiles == 2

SUPPORTED_VIDEO == {"h264"}

SUPPORTED_AUDIO == {"aac", "ac3", "mp3"}

SUPPORTED_CONTAINER == {<<"m", "p", "4">>, <<"m", "4", "v">>, <<"m", "o", "v">>}

\* lines 22-27, in the order of the dict
VIDEO_PATTERNS ==
  <<[codec |-> "h264", re |-> {<<"h", "2", "6", "4">>, <<"h", ".", "2", "6", "4">>, <<"x", "2", "6", "4">>}],
    [codec |-> "h265", re |-> {<<"h", "2", "6", "5">>, <<"h", ".", "2", "6", "5">>, <<"h", "e", "v", "c">>, <<"x", "2", "6", "5">>}],
    [codec |-> "vp9", re |-> {<<"v", "p", "9">>}],
    [codec |-> "av1", re |-> {<<"a", "v", "1">>}]>>

\* lines 29-35, in the order of the dict
AUDIO_PATTERNS ==
  <<[codec |-> "aac", re |-> {<<"a", "a", "c">>}],
    [codec |-> "ac3", re |-> {<<"a", "c", "3">>, <<"d", "o", "l", "b", "y">>}],
    [codec |-> "mp3", re |-> {<<"m", "p", "3">>}],
    [codec |-> "flac", re |-> {<<"f", "l", "a", "c">>}],
    [codec |-> "dts", re |-> {<<"d", "t", "s">>}]>>

\* str.lower(), on the letters the names are made of
lower_char(c) ==
  CASE c = "H" -> "h" [] c = "E" -> "e" [] c = "V" -> "v" [] c = "C" -> "c"
    [] c = "D" -> "d" [] c = "T" -> "t" [] c = "S" -> "s"
    [] c = "M" -> "m" [] c = "K" -> "k"
    [] OTHER -> c

lower(t) == [i \in 1..Len(t) |-> lower_char(t[i])]

\* the text t holds the string w somewhere
Holds(t, w) == \E i \in 1..(Len(t) + 1 - Len(w)) : SubSeq(t, i, i + Len(w) - 1) = w

\* regex.search(name) with re.IGNORECASE
search(re, name) == \E w \in re : Holds(lower(name), w)

\* lines 38-42: the first codec of the dict whose pattern matches
guess_codec(name, patterns) ==
  LET hits == {i \in 1..Len(patterns) : search(patterns[i].re, name)} IN
    IF hits = {} THEN "unknown"
    ELSE patterns[CHOOSE i \in hits : \A j \in hits : i <= j].codec

Dots(name) == {i \in 1..Len(name) : name[i] = "."}

\* PurePath.suffix: from the last dot on, unless the name starts or ends
\* with it
suffix(name) ==
  IF Dots(name) = {} THEN <<>>
  ELSE LET i == CHOOSE k \in Dots(name) : \A j \in Dots(name) : j <= k IN
         IF 1 < i /\ i < Len(name) THEN SubSeq(name, i, Len(name)) ELSE <<>>

RECURSIVE lstrip_dot(_)
lstrip_dot(t) == IF t # <<>> /\ Head(t) = "." THEN lstrip_dot(Tail(t)) ELSE t

\* line 51
ext_of(name) == lstrip_dot(lower(suffix(name)))

\* root.rglob("*.*") yields the entries whose name has a dot
Globbed(name) == Dots(name) # {}

\* lines 51-72: the report entry of one file
entry_of(name) ==
  LET ext == ext_of(name)
      video_codec == guess_codec(name, VIDEO_PATTERNS)
      audio_codec == guess_codec(name, AUDIO_PATTERNS)
      container_ok == ext \in SUPPORTED_CONTAINER
  IN [file |-> name, container |-> ext, video |-> video_codec, audio |-> audio_codec,
      transcode |-> \/ video_codec \notin SUPPORTED_VIDEO
                    \/ audio_codec \notin SUPPORTED_AUDIO
                    \/ ~container_ok]

\* the parts file names are made of, and their extensions
Parts == {<<"x", "2", "6", "4">>, <<"H", "E", "V", "C">>, <<"a", "a", "c">>, <<"D", "T", "S">>}

Extensions == {<<>>, <<".", "m", "p", "4">>, <<".", "M", "K", "V">>}

RECURSIVE Join(_)
Join(ps) ==
  IF Len(ps) = 0 THEN <<>>
  ELSE IF Len(ps) = 1 THEN ps[1]
  ELSE ps[1] \o <<".">> \o Join(Tail(ps))

FileNames ==
  {Join(ps) \o e : ps \in UNION {[1..k -> Parts] : k \in 1..MaxParts}, e \in Extensions}

\* the entries of the tree: files, and a directory with a dot in its name
TreeEntries ==
  {[name |-> n, is_file |-> TRUE] : n \in FileNames}
    \cup {[name |-> <<"S", "e", "a", "s", "o", "n", ".", "1">>, is_file |-> FALSE]}

Trees == UNION {[1..k -> TreeEntries] : k \in 0..MaxFiles}

\* lines 47-72: one round of `for file in root.rglob("*.*")`
scan_media ==
  /\ pos <= Len(media)
  /\ pos' = pos + 1
  /\ LET file == media[pos] IN
       report' = IF Globbed(file.name) /\ file.is_file
                 THEN Append(report, entry_of(file.name))
                 ELSE report
  /\ UNCHANGED media

\* what the auditor leaves alone
NotCodec == <<RunVars, LogVars, BotVars>>

InitCodec ==
  /\ InitRun
  /\ NoLogs
  /\ BotStart(FALSE)
  /\ \E m \in Trees : CodecStart(m)

NextCodec == scan_media /\ UNCHANGED NotCodec

SpecCodec == InitCodec /\ [][NextCodec]_vars

(***************************************************************************)
(* The labels of each step of main                                         *)
(***************************************************************************)
StepOrder == <<"system", "flatpak", "languages", "containers", "cleanup", "deep", "llm">>

Rank(s) == IF s = "" THEN 0 ELSE CHOOSE i \in 1..Len(StepOrder) : StepOrder[i] = s

RunLabels == {"run", "run_popen", "run_loop", "run_wait", "run_ret"}

StepLabels(s) ==
  CASE s = "system" ->
         {"sys_apt", "sys_apt_c", "sys_apt2", "sys_apt3", "sys_apt4", "sys_pacman",
          "sys_pacman_c", "sys_aur", "sys_aur_help", "sys_aur_c"}
    [] s = "flatpak" -> {"fp_have", "fp_c"}
    [] s = "languages" ->
         {"lang_pipx", "lang_pipx_c", "lang_pipx_elif", "lang_pip", "lang_npm",
          "lang_npm_c", "lang_npm_elif", "lang_cargo", "lang_cargo_c", "lang_cargo_elif",
          "lang_gem", "lang_gem_c", "lang_gem_elif"}
    [] s = "containers" -> {"ct_have", "ct_c", "ct_hint"}
    [] s = "cleanup" ->
         {"cl_pacman", "cl_paccache", "cl_pc1", "cl_pc2", "cl_scc", "cl_part",
          "cl_orphans", "ro_have", "ro_query", "ro_c", "cl_aur", "cl_flatpak",
          "cl_flatpak_run", "cl_npm", "cl_npm_run", "cl_pip", "cl_pipsub"}
    [] s = "deep" ->
         {"dc_docker", "dc_docker_run", "dc_journal", "dc_j1", "dc_j2", "dc_go",
          "dc_go_run", "dc_yarn", "dc_yarn_run", "dc_cargo", "dc_cargo_run",
          "dc_flatpak", "dc_flatpak_run", "dc_aggr"}
    [] s = "llm" -> {"sum_primary", "sum_fallback"}
    [] OTHER -> {}

Steps == {StepOrder[i] : i \in 1..Len(StepOrder)}

\* the areas the parsed arguments enable
Enabled == {a \in Areas : args[a]}

(***************************************************************************)
(* C1: commands behind confirmation prompts                                *)
(***************************************************************************)
\* the prompt that precedes a command of the update functions or the orphan
\* removal, by the command's executable
QuestionOf(argv) ==
  CASE argv[1] = "apt-get" -> Q_apt
    [] argv[1] = "pacman" /\ argv[2] = "-Syu" -> Q_pacman
    [] argv[1] = "pacman" /\ argv[2] = "-Rns" -> Q_orphans
    [] argv[1] \in {"yay", "paru"} -> Q_aur
    [] argv[1] = "flatpak" -> Q_flatpak
    [] argv[1] = "pipx" -> Q_pipx
    [] argv[1] = Python -> Q_pip
    [] argv[1] = "npm" -> Q_npm
    [] argv[1] = "cargo" -> Q_cargo
    [] argv[1] = "gem" -> Q_gem
    [] argv[1] = "bash" -> Q_docker
    [] OTHER -> ""

\* the package managers whose commands the updater issues
PackageManagers ==
  {"apt-get", "pacman", "yay", "paru", "flatpak", "pipx", Python, "npm", "cargo", "gem",
   "docker"}

C3_FirstResponseKept ==
  /\ \A i \in 1..Len(writes) : writes[i].text # <<>>
  /\ Len(writes) <= 1

\* C4: the primary backend is OpenAI unless --use-codex is given; when
\* summarization is enabled the primary is attempted, and the other backend
\* is attempted exactly when the primary returned False; no backend is
\* attempted twice.
C4_PrimaryAndFallback ==
  /\ Has("llm_backend") => args.llm_backend = (IF args.use_codex THEN "codex" ELSE "openai")
  /\ tried # <<>> =>
       /\ ~args.no_llm
       /\ tried[1].b = (IF args.use_codex THEN "codex" ELSE "openai")
  /\ pc = "sum_fallback" => (Len(tried) = 1 /\ tried[1].r = "False")
  /\ pc = "m_final" =>
       /\ tried # <<>> <=> ~args.no_llm
       /\ tried # <<>> => (Len(tried) = 2 <=> tried[1].r = "False")
  /\ \A i, j \in 1..Len(tried) : i # j => tried[i].b # tried[j].b

\* C4 (witness): with --use-codex, Codex returned False and OpenAI was tried
C4_Witness ==
  /\ pc = "m_final"
  /\ args.use_codex
  /\ Len(tried) = 2
  /\ tried[1].b = "codex"
  /\ tried[2].b = "openai"

(***************************************************************************)
(* C5: a tool that is not installed is skipped                             *)
(***************************************************************************)
\* the executable have() is asked about before a command is issued ("" when
\* the command is issued without a probe): cargo's subcommands are probed by
\* the helper that implements them, the docker pull pipeline runs under bash
ToolOf(argv) ==
  CASE argv[1] = "cargo" /\ argv[2] = "install-update" -> "cargo-install-update"
    [] argv[1] = "cargo" /\ argv[2] = "cache" -> "cargo-cache"
    [] argv[1] = "bash" -> "docker"
    [] argv[1] \in {Python, "rm"} -> ""
    [] OTHER -> argv[1]

DryRun == Has("dry_run") /\ dry_run

\* the subprocesses that are run whatever dry_run is: `git rev-parse`,
\* `<aur helper> --help` and `pacman -Qtdq`
ReadOnlyQueries == {"git", "help", "pacman -Qtdq"}

\* C6 (amended): with --dry-run no command given to Ctx.run is executed and
\* Ctx.run returns 0, no file is deleted, no LLM backend is contacted and
\* the summary file is not written; the only subprocesses besides the
\* `which` probes are the read-only queries `git rev-parse`, `<aur helper>
\* --help` and `pacman -Qtdq`.
C6_DryRunReadOnly ==
  DryRun =>
    /\ ev.kind \notin {"exec", "unlink", "http"}
    /\ ev.kind = "spawn" => ev.what \in ReadOnlyQueries
    /\ child.state = "none"
    /\ pc \notin {"run_popen", "run_loop", "run_wait"}
    /\ pc = "run_ret" => rc = 0
    /\ writes = <<>>
    /\ \A i \in 1..Len(tried) : tried[i].r = "True"

\* C6 (witness): a dry run lists the orphans with `pacman -Qtdq`
C6_Witness ==
  /\ DryRun
  /\ ev.kind = "spawn"
  /\ ev.what = "pacman -Qtdq"

\* C6 (as stated): with --dry-run no subprocess other than the `which`
\* probes is spawned, no file is deleted, no LLM backend is contacted, no
\* summary is written and Ctx.run returns 0
C6_DryRunNoSubprocess ==
  DryRun =>
    /\ ev.kind \notin {"spawn", "exec", "unlink", "http"}
    /\ writes = <<>>
    /\ pc = "run_ret" => rc = 0

(***************************************************************************)
(* C7: Ctx.run tees the child's output                                     *)
(***************************************************************************)
\* the lines of s that a child emitted
OutLines(s) == SelectSeq(s, LAMBDA x : x.t = "out")

\* a is b with some of its elements left out
RECURSIVE IsSubSeq(_, _)
IsSubSeq(a, b) ==
  IF a = <<>> THEN TRUE
  ELSE IF b = <<>> THEN FALSE
  ELSE IF Head(a) = Head(b) THEN IsSubSeq(Tail(a), Tail(b))
  ELSE IsSubSeq(a, Tail(b))

PlusLine == <<Line("plus", 0)>>

\* where the terminal and the log file stand during and after a command
C7_Order ==
  /\ IsSubSeq(logf, term)
  /\ pc \in {"run_loop", "run_wait"} =>
       /\ term = PlusLine \o OutLines(term)
       /\ OutLines(term) \o pipe = emitted
  /\ pc = "run_wait" => term = PlusLine \o emitted
  /\ (pc = "run_ret" /\ ev.kind = "wait" /\ ev.ok) => term = PlusLine \o emitted
  /\ \A i \in 1..Len(term) :
       term[i].t = "failed" => (i = Len(term) /\ SubSeq(term, 1, i - 1) = PlusLine \o emitted)

\* one turn of the read loop: the line goes to the terminal, and to the end
\* of the log file unless that write failed
C7_ReadStep ==
  (pc = "run_loop" /\ pc' = "run_loop" /\ term' # term) =>
    /\ pipe # <<>>
    /\ term' = Append(term, Head(pipe))
    /\ logf' \in {logf, Append(logf, Head(pipe))}
    /\ child' = child

\* C7: every line the child emits is written to the terminal and appended
\* to the log file in the order emitted, after the '+ <command>' line and
\* before the 'Command failed' line; a log write that fails loses that line
\* in the log only: the loop goes on and the terminal has every line.
C7_Tee == []C7_Order /\ [][C7_ReadStep]_vars

\* C7 (witness): a failed command whose two lines are on the terminal while
\* the log file missed a write
C7_Witness ==
  /\ pc = "run_ret"
  /\ Len(emitted) >= 2
  /\ Len(logf) < Len(term)
  /\ term[Len(term)].t = "failed"

(***************************************************************************)
(* C8: one step and one command at a time                                  *)
(***************************************************************************)
\* C8: while the updater runs its steps a child process exists only inside
\* the Ctx.run call that started it, which returns only after the child has
\* exited (a child can outlive the updater only when SIGINT ended the run);
\* the statement running belongs to the current step, the steps entered are in the order system,
\* flatpak, languages, containers, cleanup, deep cleanup, LLM summary, and
\* every enabled step before the current one was entered.
C8_Sequential ==
  /\ child.state # "none" =>
       \/ pc \in {"run_loop", "run_wait"}
       \/ pc \in {"except", "done"} /\ exc = "KeyboardInterrupt"
  /\ \A s \in Steps : (pc \in StepLabels(s) \/ ret \in StepLabels(s)) => step = s
  /\ \A s \in ran : Rank(s) <= Rank(step)
  /\ step # "" => step \in ran
  /\ \A a \in Areas : (step # "" /\ args[a] /\ Rank(a) < Rank(step)) => a \in ran
  /\ step = "deep" => "cleanup" \in ran
  /\ step = "llm" =>
       /\ ~args.no_clean => "cleanup" \in ran
       /\ (~args.no_clean /\ args.deep_clean) => "deep" \in ran

\* C8 (witness): in the deep cleanup, Ctx.run is blocked in proc.wait() on a
\* child that closed its output and has not exited
C8_Witness ==
  /\ pc = "run_wait"
  /\ child.state = "closed"
  /\ step = "deep"
  /\ "cleanup" \in ran

(***************************************************************************)
(* C9: the defaults of parse_args                                          *)
(***************************************************************************)
\* C9: with no area flag parse_args enables the four areas, deep_clean and
\* aggressive_cache; with an area flag the areas, deep_clean and
\* aggressive_cache are as given; main enters only enabled areas, and a run
\* that returns 0 has entered exactly the enabled ones.
C9_Defaults ==
  /\ pc = "git" =>
       LET raw == ev.what IN
         IF \E a \in Areas : raw[a]
         THEN /\ \A a \in Areas : args[a] = raw[a]
              /\ args.deep_clean = raw.deep_clean
              /\ args.aggressive_cache = raw.aggressive_cache
         ELSE /\ \A a \in Areas : args[a]
              /\ args.deep_clean
              /\ args.aggressive_cache
  /\ ran # {} => ran \cap Areas \subseteq Enabled
  /\ (pc = "done" /\ exitCode = 0) => ran \cap Areas = Enabled

\* C9 (witness): a run given --flatpak --containers returned 0 having
\* entered those two areas and no deep cleanup
C9_Witness ==
  /\ pc = "done"
  /\ exitCode = 0
  /\ ran \cap Areas = {"flatpak", "containers"}
  /\ ~args.deep_clean
  /\ "deep" \notin ran

(***************************************************************************)
(* C10: --manual and Ctx.confirm                                           *)
(***************************************************************************)
\* the spellings of 'y' and 'yes' in any case
YesSpellings ==
  {<<a>> : a \in {"y", "Y"}}
    \cup {<<a, b, c>> : a \in {"y", "Y"}, b \in {"e", "E"}, c \in {"s", "S"}}

\* t is a spelling of 'y' or 'yes' between runs of blanks
IsYes(t) ==
  \E i, j \in 1..Len(t) :
    /\ i <= j
    /\ \A k \in 1..(i - 1) : t[k] = " "
    /\ \A k \in (j + 1)..Len(t) : t[k] = " "
    /\ SubSeq(t, i, j) \in YesSpellings

\* C10: assume_yes is False exactly when --manual is given; Ctx.confirm
\* returns True without reading input under assume_yes, and otherwise reads
\* one answer and returns True exactly for 'y' or 'yes' in any case between
\* blanks, False for any other answer and for end of input.
C10_ManualAndConfirm ==
  /\ pc = "git" => (args.assume_yes <=> ~ev.what.manual)
  /\ ev.kind = "confirm_call" =>
       LET c == ev.what IN
         IF c.assume_yes
         THEN c.res.ok /\ ~c.res.read
         ELSE c.res.read /\ (c.res.ok <=> (~c.inp.eof /\ IsYes(c.inp.text)))

\* C10 (witness): in a --manual run the answer " Y" was read and accepted
C10_Witness ==
  /\ ev.kind = "confirm_call"
  /\ ~ev.what.assume_yes
  /\ ev.what.inp.text = <<" ", "Y">>
  /\ ev.what.res.read
  /\ ev.what.res.ok

(***************************************************************************)
(* C11: --no-llm                                                           *)
(***************************************************************************)
\* the effects of a summarizer: an HTTP request to the OpenAI API, or a
\* probe or a run of the codex CLI
ContactsBackend ==
  \/ ev.kind = "http"
  \/ ev.kind \in {"which", "spawn", "exec"} /\ ev.what = "codex"

\* C11: with --no-llm no summarizer runs: the summary step is never
\* entered, no backend is tried or contacted, and nothing is written to the
\* summary file, up to the return of main.
C11_NoLlm ==
  (Has("no_llm") /\ args.no_llm) =>
    /\ "llm" \notin ran
    /\ pc \notin StepLabels("llm")
    /\ tried = <<>>
    /\ writes = <<>>
    /\ ~ContactsBackend

\* a run with --no-llm that reached the end of main
C11_Witness ==
  /\ pc = "done"
  /\ exitCode = 0
  /\ Has("no_llm") /\ args.no_llm
  /\ ran # {}

(***************************************************************************)
(* C12: --no-clean                                                         *)
(***************************************************************************)
\* C12: with --no-clean neither cleanup nor cleanup_deep nor remove_orphans
\* is entered, whatever --deep-clean and --aggressive-cache say; deep
\* cleanup is entered only after cleanup was, with deep_clean set, and
\* cleanup is never running once deep cleanup was entered.
C12_NoClean ==
  /\ (Has("no_clean") /\ args.no_clean) =>
       /\ ran \cap {"cleanup", "deep"} = {}
       /\ pc \notin StepLabels("cleanup") \cup StepLabels("deep")
       /\ ~Has("remove_orphans")
       /\ step \notin {"cleanup", "deep"}
  /\ "deep" \in ran =>
       /\ "cleanup" \in ran
       /\ args.deep_clean
       /\ Has("no_clean") /\ ~args.no_clean
       /\ pc \notin StepLabels("cleanup")
  /\ pc \in StepLabels("cleanup") \cup StepLabels("deep") => Has("no_clean") /\ ~args.no_clean

\* a full run (deep_clean and aggressive_cache set) with --no-clean that
\* reached the end of main
C12_Witness ==
  /\ pc = "done"
  /\ exitCode = 0
  /\ Has("no_clean") /\ args.no_clean
  /\ args.deep_clean /\ args.aggressive_cache
  /\ "containers" \in ran

(***************************************************************************)
(* C13: the Git worktree check                                             *)
(***************************************************************************)
GitProbed == ev.kind = "spawn" /\ ev.what = "git"

\* C13: the probe counts as inside a worktree only when it printed "true"
\* without an error; a failed check ends main with exit code 2 straight
\* from line 830, before the log directory is made or cleared and before
\* any step; main gets past the check only with --skip-git-repo-check or a
\* successful probe.
C13_GitGate ==
  /\ GitProbed =>
       /\ ev.ok <=> (ev.probe.raised = "" /\ ev.probe.stdout = "true")
       /\ ev.ok => pc = "logdir"
       /\ ~ev.ok => pc = "done" /\ exitCode = 2
  /\ exitCode = 2 =>
       /\ pc = "done"
       /\ GitProbed /\ ~ev.ok
       /\ ran = {} /\ step = ""
       /\ tried = <<>> /\ writes = <<>>
       /\ cur = NoCmd /\ child = NoChild /\ exc = ""
  /\ pc = "logdir" => ev = NoEv \/ (GitProbed /\ ev.ok)

\* git is not installed, and main returned 2
C13_Witness ==
  /\ pc = "done"
  /\ exitCode = 2
  /\ GitProbed
  /\ ev.probe.raised = "FileNotFoundError"

(***************************************************************************)
(* C15: orphan removal                                                     *)
(***************************************************************************)
IsRns(c) == Len(c.argv) >= 2 /\ c.argv[1] = "pacman" /\ c.argv[2] = "-Rns"

\* the packages named on a `pacman -Rns` command line
Orphans(argv) == SelectSeq(argv, LAMBDA a : a = "pkg")

\* C15: `pacman -Rns` is passed to Ctx.run only with remove_orphans set,
\* inside cleanup, behind a successful have("pacman"), with at least one
\* package listed by `pacman -Qtdq`, and after its prompt returned true;
\* after an empty or failed listing, or a declined prompt, the next
\* statement is the AUR cache removal of cleanup and no command is running.
C15_OrphanRemoval ==
  /\ (pc \in RunLabels /\ IsRns(cur)) =>
       /\ Has("remove_orphans") /\ args.remove_orphans
       /\ step = "cleanup" /\ ~args.no_clean
       /\ "pacman" \in guards
       /\ Len(Orphans(cur.argv)) >= 1
       /\ lastConfirm = [q |-> Q_orphans, ok |-> TRUE, asked |-> TRUE]
       /\ cur.allow_fail
       /\ ret = "cl_aur"
  /\ (ev.kind = "spawn" /\ ev.what = "pacman -Qtdq") =>
       IF ev.ok /\ ev.listed >= 1
       THEN pc = "ro_c" /\ IsRns(cur) /\ Len(Orphans(cur.argv)) = ev.listed
       ELSE pc = "cl_aur"
  /\ (ev.kind = "confirm" /\ ev.what = Q_orphans) =>
       IF ev.ok THEN pc = "run" /\ IsRns(cur) ELSE pc = "cl_aur"
  /\ pc \in {"ro_have", "ro_query", "ro_c"} => Has("remove_orphans") /\ args.remove_orphans

\* the removal of two orphans was confirmed at the prompt and is running
C15_Witness ==
  /\ pc = "run_loop"
  /\ IsRns(cur)
  /\ Len(Orphans(cur.argv)) = 2
  /\ ~assume_yes

(***************************************************************************)
(* C16: the aggressive ~/.cache cleanup                                    *)
(***************************************************************************)
Whitelist == {"qutebrowser", "mozilla", "chromium"}

IsRm(c) == Len(c.argv) = 3 /\ c.argv[1] = "rm" /\ c.argv[2] = "-rf"

\* C16: `rm -rf` of a child of ~/.cache is run only in cleanup_deep with
\* aggressive_cache, deep_clean and clean_after; every child found that is
\* not whitelisted is removed, the whitelisted ones are kept, and no `rm`
\* of the whole run names one of them; an `rm` that fails returns to the
\* loop it was called from.
C16_AggressiveCache ==
  /\ (pc \in RunLabels /\ IsRm(cur)) =>
       /\ cur.argv[3] \notin Whitelist
       /\ cur.allow_fail
       /\ ret \in {"cl_aur", "cl_pipsub", "dc_aggr"}
       /\ ret = "dc_aggr" <=> step = "deep"
  /\ (pc \in RunLabels /\ IsRm(cur) /\ step = "deep") =>
       /\ args.aggressive_cache /\ args.deep_clean
       /\ Has("no_clean") /\ ~args.no_clean
       /\ \E i \in 1..Len(CacheNames) : cur.argv[3] = CacheNames[i] /\ idx = i + 1
  /\ ev.kind = "iterdir" =>
       /\ ev.what \notin Whitelist
       /\ pc = "run" /\ cur = Cmd(<<"rm", "-rf", ev.what>>, FALSE, TRUE)
  /\ ev.kind = "keep" => ev.what \in Whitelist /\ pc = "dc_aggr"
  /\ (pc = "except" /\ IsRm(cur)) => exc = "OSError"

\* the removal of ~/.cache/pip failed and the loop goes on with the next
\* child
C16_Witness ==
  /\ pc = "run_ret"
  /\ IsRm(cur)
  /\ step = "deep"
  /\ cur.argv[3] = "pip"
  /\ rc # 0
  /\ ret = "dc_aggr"
  /\ idx <= Len(CacheNames)

(***************************************************************************)
(* C17: the failure policy                                                 *)
(***************************************************************************)
\* the commands run without allow_fail (lines 237, 238, 250)
StrictCmds == {<<"apt-get", "update">>, <<"apt-get", "upgrade", "-y">>, PacmanSyu}

\* the exceptions Ctx.run raises for a failed command
CommandErrors == {"CalledProcessError", "FileNotFoundError"}

\* C17: only apt-get update/upgrade and pacman -Syu run without allow_fail.
\* A command with allow_fail that exits non-zero or is missing makes Ctx.run
\* return the exit code or 127 and raises nothing; a strict one raises, the
\* run then ends in update_system with no later step entered and exit code
\* 1.  main returns 130 exactly after a KeyboardInterrupt, and 0 exactly
\* when nothing was raised, every enabled area having been entered.
C17_FailurePolicy ==
  /\ (pc \in RunLabels /\ cur # NoCmd /\ ret # "call_done") =>
       (cur.allow_fail <=> cur.argv \notin StrictCmds)
  /\ (ev.kind = "wait" /\ ~ev.ok) =>
       IF cur.allow_fail
       THEN pc = "run_ret" /\ rc \in ExitCodes \ {0} /\ exc = ""
       ELSE pc = "except" /\ exc = "CalledProcessError"
  /\ (ev.kind = "exec" /\ ~ev.ok) =>
       \/ pc = "run_ret" /\ rc = 127 /\ cur.allow_fail /\ exc = ""
       \/ pc = "except" /\ exc = "FileNotFoundError" /\ ~cur.allow_fail
       \/ pc = "except" /\ exc = "OSError"
  /\ exc \in CommandErrors =>
       /\ pc \in {"except", "done"}
       /\ step = "system" /\ ran = {"system"}
       /\ tried = <<>> /\ writes = <<>>
       /\ pc = "except" => ~cur.allow_fail /\ cur.argv \in StrictCmds
  /\ pc = "done" =>
       /\ exc \notin {"", "KeyboardInterrupt"} <=> exitCode = 1
       /\ exc = "KeyboardInterrupt" <=> exitCode = 130
       /\ exitCode = 0 => exc = "" /\ Enabled \subseteq ran
       /\ exitCode \in {0, 1, 2, 130}

\* pacman -Syu failed: main returned 1 and the other enabled areas were
\* never entered
C17_Witness ==
  /\ pc = "done"
  /\ exitCode = 1
  /\ exc = "CalledProcessError"
  /\ ran = {"system"}
  /\ Enabled = Areas

(***************************************************************************)
(* C14: --clear-logs                                                       *)
(***************************************************************************)
Unlinked == {unlinks[i].name : i \in 1..Len(unlinks)}

\* C14: clear_log_dir calls unlink() only on files of the list it made on
\* entry, each once: never on a subdirectory, on a file that appeared
\* later, or on the log and summary file of this run, which do not exist
\* before clear_log_dir is over.  It calls unlink() not at all under
\* dry_run or when the prompt was not answered yes; otherwise, when the
\* loop is over, every listed file was tried, the failed ones included.
\* What was unlinked is gone, subdirectories stay.
C14_ClearLogs ==
  /\ Unlinked \subseteq Names(entries) \cap OldFiles
  /\ Len(unlinks) = Cardinality(Unlinked)
  /\ \A n \in Unlinked : ~is_dir(n) /\ n \notin {log_file, summary_file, OtherFile}
  /\ unlinks # <<>> => ~dry_run /\ (assume_yes \/ answer = "yes")
  /\ answer \in {"eof", "no"} => unlinks = <<>> /\ pc \in {"m_banner", "m_system"}
  /\ (pc \in {"m_banner", "m_system"} /\ entries # <<>> /\ ~dry_run
        /\ (assume_yes \/ answer = "yes")) =>
       Unlinked = Names(entries) \cap OldFiles
  /\ \A i \in 1..Len(unlinks) : unlinks[i].ok => unlinks[i].name \notin log_dir
  /\ \A n \in Names(entries) : is_dir(n) => n \in log_dir
  /\ OtherFile \in log_dir => entries # <<>> /\ OtherFile \notin Names(entries)
  /\ log_file \in log_dir => pc = "m_system"
  /\ summary_file \notin log_dir

\* the first unlink() failed, the second one removed its file, the
\* subdirectory is still there, and the log file of this run was created
C14_Witness ==
  /\ pc = "m_system"
  /\ Len(unlinks) = 2
  /\ ~unlinks[1].ok /\ unlinks[2].ok
  /\ "archive" \in log_dir
  /\ log_file \in log_dir
  /\ answer = "yes"

(***************************************************************************)
(* C18: the PR bot's loop is driven by restart.flag                        *)
(***************************************************************************)
\* a cycle was started for every deletion of the flag file but the one
\* whose cycle is about to start, and a file is deleted once it was created
C18_Counts ==
  /\ deleted = cycles + (IF bot = "latest" THEN 1 ELSE 0)
  /\ deleted <= created
  /\ (bot = "latest" /\ flag) => fresh

\* a cycle starts at get_latest_pr_url only, which is entered only from the
\* unlink() of wait_for_restart, with the flag file there before it and gone
\* after it
C18_Step ==
  /\ cycles' # cycles => bot = "latest" /\ cycles' = cycles + 1
  /\ (bot' = "latest" /\ bot # "latest") =>
       /\ bot = "wait_unlink"
       /\ flag /\ ~flag'
       /\ deleted' = deleted + 1
  /\ (bot = "wait_exists" /\ bot' = "wait_unlink") => flag

\* C18: every cycle starts right after wait_for_restart saw restart.flag
\* and deleted it, so no more cycles are started than flag files were
\* created, and when wait_for_restart has returned the flag file exists
\* only if it was created again since the deletion.
C18_FlagDriven == []C18_Counts /\ [][C18_Step]_vars

\* two flag files were created and the second cycle is under way
C18_Witness ==
  /\ cycles = 2
  /\ created = 2
  /\ bot = "merge_get"

(***************************************************************************)
(* C19: failed UI lookups stay inside the cycle                            *)
(***************************************************************************)
\* the statements inside the try blocks of merge_latest_pr,
\* go_to_deepsource_issues and scrape_first_issue
TryLabels ==
  {"merge_find", "merge_click", "merge_confirm", "ds_tab", "scrape_find", "scrape_fields",
   "scrape_write"}

C19_Caught ==
  /\ (raised # "" /\ raised_at \in TryLabels) =>
       raised = "KeyboardInterrupt" /\ raised_at # "ds_tab"
  /\ raised_at \notin {"merge_done", "merge_except", "scrape_except"}
  /\ bot \in {"merge_except", "scrape_except"} => raised = ""
  /\ printed = "Could not merge PR" => bot = "ds_link" /\ raised = ""
  /\ printed = "Could not locate Issues tab" => bot = "scrape_find" /\ raised = ""
  /\ printed = "Failed to scrape issue" => bot = "wait" /\ raised = ""

C19_Handled ==
  /\ (bot = "merge_except" /\ bot' # bot) =>
       bot' = "ds_link" /\ printed' = "Could not merge PR"
  /\ (bot = "scrape_except" /\ bot' # bot) =>
       bot' = "wait" /\ printed' = "Failed to scrape issue"
  /\ (bot = "ds_tab" /\ bot' # bot) => bot' = "scrape_find" /\ printed' # ""

\* C19: an exception of a lookup inside the try blocks of merge_latest_pr,
\* go_to_deepsource_issues and scrape_first_issue never leaves the function:
\* the handler prints it, and the bot goes on to get_deepsource_link after
\* a failed merge, to scrape_first_issue after a failed Issues tab, and back
\* to wait_for_restart after a failed scrape.
C19_LookupsCaught == []C19_Caught /\ [][C19_Handled]_vars

\* the merge failed and the cycle is at get_deepsource_link
C19_Witness ==
  /\ printed = "Could not merge PR"
  /\ bot = "ds_link"
  /\ cycles = 1
  /\ raised = ""

(***************************************************************************)
(* C20: the codec auditor flags every file likely to need transcoding      *)
(***************************************************************************)
\* the name indicates the codec: its pattern matches the name
Indicates(name, patterns, codec) ==
  \E i \in 1..Len(patterns) : patterns[i].codec = codec /\ search(patterns[i].re, name)

Recognised(name, patterns) == \E i \in 1..Len(patterns) : search(patterns[i].re, name)

\* what the docstring (lines 5-6) says is flagged
LikelyTranscode(name) ==
  \/ \E c \in {"h265", "vp9", "av1"} : Indicates(name, VIDEO_PATTERNS, c)
  \/ \E c \in {"dts", "flac"} : Indicates(name, AUDIO_PATTERNS, c)
  \/ ~Recognised(name, VIDEO_PATTERNS)
  \/ ~Recognised(name, AUDIO_PATTERNS)
  \/ ext_of(name) \notin SUPPORTED_CONTAINER

Scanned == {media[i] : i \in 1..(pos - 1)}

Reported(name) == {report[i] : i \in {j \in 1..Len(report) : report[j].file = name}}

\* every file passed that is likely to need transcoding is in the report
C20_Listed ==
  \A f \in Scanned : (f.is_file /\ LikelyTranscode(f.name)) => Reported(f.name) # {}

\* every report entry of a file likely to need transcoding says so
C20_Flagged ==
  \A i \in 1..Len(report) : LikelyTranscode(report[i].file) => report[i].transcode

\* an entry with transcode = False has H.264, AAC/AC3/MP3 and a supported
\* container
C20_Unflagged ==
  \A i \in 1..Len(report) :
    ~report[i].transcode =>
      /\ report[i].video = "h264"
      /\ report[i].audio \in {"aac", "ac3", "mp3"}
      /\ report[i].container \in SUPPORTED_CONTAINER

\* C20: every file scan_media has passed whose name indicates H.265, VP9,
\* AV1, DTS or FLAC, or no video or no audio codec, or whose extension is
\* not mp4, m4v or mov, is in the report with transcode = True; and an entry
\* with transcode = False has H.264, AAC/AC3/MP3 and such a container.
C20_EveryLikelyFlagged == C20_Flagged /\ C20_Listed /\ C20_Unflagged

(***************************************************************************)
(* C21: the confirm step of merge_latest_pr is retried at most 3 times     *)
(***************************************************************************)
GaveUp == printed = "Unable to click confirm button after multiple attempts"

\* in a cycle the confirm button is looked up at most 3 times and clicked
\* at most once; while the loop runs, the lookups made are the rounds done
\* and no click has succeeded; giving up is reported after 3 lookups
\* without a click, inside the function and with nothing raised
C21_Bounded ==
  /\ lookups <= 3
  /\ clicks <= 1
  /\ bot = "merge_confirm" => lookups = attempt - 1 /\ clicks = 0
  /\ clicks = 1 => bot \notin {"merge_find", "merge_click", "merge_confirm"}
  /\ GaveUp => bot = "merge_done" /\ lookups = 3 /\ clicks = 0 /\ raised = ""
  /\ printed = "Clicked confirm" => bot = "merge_done" /\ clicks = 1

\* a lookup is made only in a round of the loop; a click ends the loop; a
\* stale button or no button leads to the next round; the function ends
\* with "Merge flow complete" and goes on to get_deepsource_link
C21_Round ==
  /\ lookups' = lookups + 1 => bot = "merge_confirm" /\ attempt <= 3
  /\ clicks' = clicks + 1 => bot = "merge_confirm" /\ bot' = "merge_done"
  /\ (bot = "merge_confirm" /\ printed' = "Confirm button became stale"
        /\ lookups' # lookups) =>
       bot' = "merge_confirm" /\ attempt' = attempt + 1 /\ clicks' = clicks
  /\ (bot = "merge_confirm" /\ attempt > 3 /\ bot' # bot) =>
       bot' = "merge_done" /\ GaveUp' /\ raised' = ""
  /\ (bot = "merge_done" /\ bot' # bot) =>
       bot' = "ds_link" /\ printed' = "Merge flow complete" /\ raised' = ""

\* C21: after the merge button was clicked, the confirm button is looked up
\* at most 3 times per cycle and clicked at most once, the first click
\* ending the loop; a stale button on click leads to the next attempt; and
\* after 3 failed attempts the function reports it and returns normally.
C21_ConfirmRetries == []C21_Bounded /\ [][C21_Round]_vars

\* the third attempt failed too, and the function is about to return
C21_Witness ==
  /\ GaveUp
  /\ bot = "merge_done"
  /\ lookups = 3
  /\ cycles = 1

(***************************************************************************)
(* C22: a restart request is not lost                                      *)
(***************************************************************************)
\* the bot is polling or in a cycle
InLoop == bot \notin {"login", "finally", "exited"}

\* C22: when restart.flag exists while the bot is polling or in a cycle,
\* then the bot deletes it and starts a cycle after that, unless an
\* exception leaves the loop or another process removes the file.
C22_RestartNotLost ==
  \A n \in 0..MaxFlags, m \in 0..MaxFlags :
    (flag /\ InLoop /\ deleted = n /\ removals = m)
      ~> ((deleted > n /\ cycles > n) \/ raised # "" \/ removals > m)

\* two flag files were deleted by the bot, none by anyone else; the first
\* cycle wrote its report and the second one has started
C22_Witness ==
  /\ cycles = 2
  /\ deleted = 2
  /\ removals = 0
  /\ issue_txt >= 1
  /\ raised = ""
  /\ ~flag

====
